---- MODULE Spec2Model ----
(***************************************************************************)
(* Model of the discord.py ComponentV2 parser (src/src/parsers):           *)
(*   - ComponentVisitor, the AST visitor of buttonParser.py, as a          *)
(*     small-step traversal: one action per visit_* handler, with the      *)
(*     Python call stack of the recursive visit_ClassDef /                 *)
(*     visit_FunctionDef handlers kept in `stack`;                         *)
(*   - ParseCache of parseCache.py and parse_file of buttonParser.py;      *)
(*   - the pure normalisation helpers, applied to inputs drawn in Init.    *)
(* Python str values are tuples of one-character strings, so that `in`,    *)
(* split('.') and lower() are computed character by character.             *)
(* Identifiers in AST position (ast.Name.id, ast.Attribute.attr,           *)
(* keyword.arg) are TLA+ strings; Chars gives their characters.            *)
(***************************************************************************)
EXTENDS Integers, Sequences, FiniteSets, TLC

VARIABLES
    \* ComponentVisitor fields (buttonParser.py:26-39)
    components, errors, views, current_class, current_class_type,
    current_class_line, class_components, in_init_method, processed_nodes,
    variables, hierarchy_tracking, hierarchy_relationships,
    \* traversal: frames of the handlers in progress, lines consumed, the
    \* exception that left visit() (or NoException), and the node visited
    \* last with the context it was reached in
    stack, lineno, raised, last,
    \* history: the declaration whose body each component was extracted in,
    \* and the one whose body each name of the binding table was assigned in;
    \* for each frame of the stack, the context its handler was entered with
    owner, binder, entered,
    \* ParseCache fields (parseCache.py:29-32), time.time(), the files on
    \* disk, number of calls made, and the last call with its return value
    cache, hits, misses, now, disk, calls, ret,
    \* the threads that share the global cache (get_cache): for each, the
    \* statement of get it has reached, its arguments and its local `entry`
    callers,
    \* argument and return value of the pure helper under test
    style_arg, style_ret

visitorVars == <<components, errors, views, current_class, current_class_type,
                 current_class_line, class_components, in_init_method,
                 processed_nodes, variables, hierarchy_tracking,
                 hierarchy_relationships, stack, lineno, raised, last,
                 owner, binder, entered>>
cacheVars == <<cache, hits, misses, now, disk, calls, ret, callers>>
pureVars == <<style_arg, style_ret>>
vars == <<visitorVars, cacheVars, pureVars>>

(***************************************************************************)
(* Python values                                                           *)
(***************************************************************************)
None == [k |-> "None"]
PyStr(chars) == [k |-> "str", s |-> chars]
PyInt(n) == [k |-> "int", n |-> n]
PyBool(b) == [k |-> "bool", b |-> b]

EmptyDict == << >>
DictSet(d, key, val) ==
    [x \in (DOMAIN d) \cup {key} |-> IF x = key THEN val ELSE d[x]]
DictPop(d, key) == [x \in (DOMAIN d) \ {key} |-> d[x]]

Chars(id) ==
    CASE id = "primary" -> <<"p", "r", "i", "m", "a", "r", "y">>
      [] id = "secondary" -> <<"s", "e", "c", "o", "n", "d", "a", "r", "y">>
      [] id = "success" -> <<"s", "u", "c", "c", "e", "s", "s">>
      [] id = "green" -> <<"g", "r", "e", "e", "n">>
      [] id = "danger" -> <<"d", "a", "n", "g", "e", "r">>
      [] id = "red" -> <<"r", "e", "d">>
      [] id = "link" -> <<"l", "i", "n", "k">>
      [] id = "blurple" -> <<"b", "l", "u", "r", "p", "l", "e">>
      [] id = "grey" -> <<"g", "r", "e", "y">>
      [] id = "gray" -> <<"g", "r", "a", "y">>
      [] id = "ButtonStyle" -> <<"B", "u", "t", "t", "o", "n", "S", "t", "y", "l", "e">>
      [] id = "MyButtonStyle" -> <<"M", "y", "B", "u", "t", "t", "o", "n", "S", "t", "y", "l", "e">>
      [] id = "discord" -> <<"d", "i", "s", "c", "o", "r", "d">>
      [] id = "primaryx" -> <<"p", "r", "i", "m", "a", "r", "y", "x">>
      [] id = "xred" -> <<"x", "r", "e", "d">>
      [] id = "Primary" -> <<"P", "r", "i", "m", "a", "r", "y">>
      [] id = "unknown" -> <<"u", "n", "k", "n", "o", "w", "n">>
      [] id = "value" -> <<"v", "a", "l", "u", "e">>
      [] id = "View" -> <<"V", "i", "e", "w">>
      [] id = "LayoutView" -> <<"L", "a", "y", "o", "u", "t", "V", "i", "e", "w">>
      [] id = "Modal" -> <<"M", "o", "d", "a", "l">>
      [] id = "Cog" -> <<"C", "o", "g">>
      [] id = "ui" -> <<"u", "i">>
      [] id = "self" -> <<"s", "e", "l", "f">>
      [] id = "a" -> <<"a">>
      [] id = "b" -> <<"b">>
      [] id = "c" -> <<"c">>
      [] id = "s" -> <<"s">>
      [] id = "r" -> <<"r">>
      [] id = "u" -> <<"u">>
      [] id = "n" -> <<"n">>
      [] id = "<variable:" -> <<"<", "v", "a", "r", "i", "a", "b", "l", "e", ":">>
      [] id = ">" -> <<">">>
      [] id = "<dynamic>" -> <<"<", "d", "y", "n", "a", "m", "i", "c", ">">>
      [] id = "cb" -> <<"c", "b">>
      [] id = "on_select" -> <<"o", "n", "_", "s", "e", "l", "e", "c", "t">>
      [] id = "__init__" -> <<"_", "_", "i", "n", "i", "t", "_", "_">>
      [] id = "small" -> <<"s", "m", "a", "l", "l">>
      [] id = "medium" -> <<"m", "e", "d", "i", "u", "m">>
      [] id = "large" -> <<"l", "a", "r", "g", "e">>
      [] id = "long" -> <<"l", "o", "n", "g">>
      [] id = "short" -> <<"s", "h", "o", "r", "t">>
      [] id = "paragraph" -> <<"p", "a", "r", "a", "g", "r", "a", "p", "h">>
      [] id = "Select" -> <<"S", "e", "l", "e", "c", "t">>
      [] id = "x" -> <<"x">>
      [] id = "TextStyle" -> <<"T", "e", "x", "t", "S", "t", "y", "l", "e">>
      [] id = "SeparatorSpacing" ->
            <<"S", "e", "p", "a", "r", "a", "t", "o", "r", "S", "p", "a", "c", "i", "n", "g">>

\* pattern in s
IsSubstring(pattern, s) ==
    \E i \in 0..(Len(s) - Len(pattern)) :
        SubSeq(s, i + 1, i + Len(pattern)) = pattern

LowerChar(ch) ==
    CASE ch = "B" -> "b" [] ch = "S" -> "s" [] ch = "M" -> "m" [] ch = "T" -> "t"
      [] ch = "P" -> "p" [] ch = "V" -> "v" [] ch = "L" -> "l"
      [] ch = "C" -> "c" [] OTHER -> ch

\* s.lower()
Lower(s) == [i \in 1..Len(s) |-> LowerChar(s[i])]

\* s.split('.')[-1]
LastToken(s) ==
    LET dots == {i \in 1..Len(s) : s[i] = "."}
        lastDot == CHOOSE i \in dots : \A j \in dots : j <= i
    IN  IF dots = {} THEN s ELSE SubSeq(s, lastDot + 1, Len(s))

RECURSIVE Join(_)
\* '.'.join(parts)
Join(parts) ==
    IF Len(parts) = 0 THEN << >>
    ELSE IF Len(parts) = 1 THEN parts[1]
    ELSE parts[1] \o <<".">> \o Join(Tail(parts))

\* a dotted path of identifiers as a Python str
Dotted(path) == Join([i \in 1..Len(path) |-> Chars(path[i])])

(***************************************************************************)
(* _normalize_button_style                                                 *)
(***************************************************************************)
\* style_map, in insertion order
style_map ==
    << <<<<"B", "u", "t", "t", "o", "n", "S", "t", "y", "l", "e", ".", "p", "r", "i", "m", "a", "r", "y">>,
          <<"p", "r", "i", "m", "a", "r", "y">>>>,
       <<<<"B", "u", "t", "t", "o", "n", "S", "t", "y", "l", "e", ".", "s", "e", "c", "o", "n", "d", "a", "r", "y">>,
          <<"s", "e", "c", "o", "n", "d", "a", "r", "y">>>>,
       <<<<"B", "u", "t", "t", "o", "n", "S", "t", "y", "l", "e", ".", "s", "u", "c", "c", "e", "s", "s">>,
          <<"s", "u", "c", "c", "e", "s", "s">>>>,
       <<<<"B", "u", "t", "t", "o", "n", "S", "t", "y", "l", "e", ".", "g", "r", "e", "e", "n">>,
          <<"s", "u", "c", "c", "e", "s", "s">>>>,
       <<<<"B", "u", "t", "t", "o", "n", "S", "t", "y", "l", "e", ".", "d", "a", "n", "g", "e", "r">>,
          <<"d", "a", "n", "g", "e", "r">>>>,
       <<<<"B", "u", "t", "t", "o", "n", "S", "t", "y", "l", "e", ".", "r", "e", "d">>,
          <<"d", "a", "n", "g", "e", "r">>>>,
       <<<<"B", "u", "t", "t", "o", "n", "S", "t", "y", "l", "e", ".", "l", "i", "n", "k">>,
          <<"l", "i", "n", "k">>>>,
       <<<<"B", "u", "t", "t", "o", "n", "S", "t", "y", "l", "e", ".", "b", "l", "u", "r", "p", "l", "e">>,
          <<"p", "r", "i", "m", "a", "r", "y">>>>,
       <<<<"B", "u", "t", "t", "o", "n", "S", "t", "y", "l", "e", ".", "g", "r", "e", "y">>,
          <<"s", "e", "c", "o", "n", "d", "a", "r", "y">>>>,
       <<<<"B", "u", "t", "t", "o", "n", "S", "t", "y", "l", "e", ".", "g", "r", "a", "y">>,
          <<"s", "e", "c", "o", "n", "d", "a", "r", "y">>>> >>

\* the direct mapping of the lower-cased final token (buttonParser.py:645-659)
DirectMapping(simple_style) ==
    IF simple_style \in {<<"p", "r", "i", "m", "a", "r", "y">>,
                         <<"s", "e", "c", "o", "n", "d", "a", "r", "y">>,
                         <<"s", "u", "c", "c", "e", "s", "s">>,
                         <<"d", "a", "n", "g", "e", "r">>, <<"l", "i", "n", "k">>}
    THEN simple_style
    ELSE IF simple_style = <<"g", "r", "e", "e", "n">> THEN <<"s", "u", "c", "c", "e", "s", "s">>
    ELSE IF simple_style = <<"r", "e", "d">> THEN <<"d", "a", "n", "g", "e", "r">>
    ELSE IF simple_style \in {<<"g", "r", "e", "y">>, <<"g", "r", "a", "y">>}
    THEN <<"s", "e", "c", "o", "n", "d", "a", "r", "y">>
    ELSE IF simple_style = <<"b", "l", "u", "r", "p", "l", "e">>
    THEN <<"p", "r", "i", "m", "a", "r", "y">>
    ELSE <<"s", "e", "c", "o", "n", "d", "a", "r", "y">>

\* the first pattern of the map, in order from entry i, that style contains
RECURSIVE FirstPattern(_, _, _)
FirstPattern(map, i, style) ==
    IF i > Len(map) THEN 0
    ELSE IF IsSubstring(map[i][1], style) THEN i
    ELSE FirstPattern(map, i + 1, style)

\* the value of entry first of the map, the direct mapping when there is none
Normalized(map, first, style) ==
    IF first # 0 THEN map[first][2] ELSE DirectMapping(Lower(LastToken(style)))

_normalize_button_style(style) ==
    Normalized(style_map, FirstPattern(style_map, 1, style), style)

(***************************************************************************)
(* ParseCache (parseCache.py)                                              *)
(***************************************************************************)
Files == {"f1", "f2"}
\* source texts: two that parse and traverse, one that ast.parse rejects,
\* one whose hierarchy is cyclic (RecursionError in _build_node_tree)
Sources == {"src_a", "src_b", "src_syntax", "src_cyclic"}
Unreadable == "unreadable"

max_age == 30
CACHE_AVAILABLE == TRUE

MaxCalls == 3
MaxTime == 45
TickDelta == 15

\* hashlib.sha256(...).hexdigest(): distinct texts have distinct digests
_hash_content(content) == <<"sha256", content>>

CacheEntry(content_hash, result, timestamp) ==
    [content_hash |-> content_hash, result |-> result, timestamp |-> timestamp]

\* the stored hash is not compared
HashNeverDiffers(entry, content_hash) == FALSE

HashDiffers(entry, content_hash) == entry.content_hash # content_hash

\* an entry of exactly max_age counts as expired
IsExpiredAtLimit(age) == age >= max_age

\* no entry ever expires
IsExpiredNever(age) == FALSE

IsExpired(age) == age > max_age

\* a valid entry is returned without counting the hit
GetUncounted(file_path, content) ==
    IF file_path \notin DOMAIN cache
    THEN [cache |-> cache, hits |-> hits, misses |-> misses + 1, value |-> None]
    ELSE LET entry == cache[file_path]
             age == now - entry.timestamp
         IN  IF HashDiffers(entry, _hash_content(content)) \/ IsExpired(age)
             THEN [cache |-> DictPop(cache, file_path), hits |-> hits,
                   misses |-> misses + 1, value |-> None]
             ELSE [cache |-> cache, hits |-> hits, misses |-> misses,
                   value |-> entry.result]

\* ParseCache.get: the cache, counters and return value after the call
get(file_path, content) ==
    IF file_path \notin DOMAIN cache
    THEN [cache |-> cache, hits |-> hits, misses |-> misses + 1, value |-> None]
    ELSE LET entry == cache[file_path]
             content_hash == _hash_content(content)
             age == now - entry.timestamp
         IN  IF HashDiffers(entry, content_hash)
             THEN [cache |-> DictPop(cache, file_path), hits |-> hits,
                   misses |-> misses + 1, value |-> None]
             ELSE IF IsExpired(age)
             THEN [cache |-> DictPop(cache, file_path), hits |-> hits,
                   misses |-> misses + 1, value |-> None]
             ELSE [cache |-> cache, hits |-> hits + 1, misses |-> misses,
                   value |-> entry.result]

\* an entry that is present is kept as it is
SetIfAbsent(cache0, file_path, content, result) ==
    IF file_path \in DOMAIN cache0 THEN cache0
    ELSE DictSet(cache0, file_path, CacheEntry(_hash_content(content), result, now))

\* ParseCache.set: the cache after the call
set(cache0, file_path, content, result) ==
    DictSet(cache0, file_path, CacheEntry(_hash_content(content), result, now))

\* every entry is removed
InvalidateAll(file_path) == EmptyDict

\* ParseCache.invalidate
invalidate(file_path) == DictPop(cache, file_path)

\* round(n / d * 100, 2) in hundredths of a percent, ties to the even digit
HitRate(n, d) ==
    LET q == (n * 10000) \div d
        r == (n * 10000) % d
    IN  IF 2 * r > d \/ (2 * r = d /\ q % 2 = 1) THEN q + 1 ELSE q

\* ParseCache.get_stats
get_stats ==
    LET total == hits + misses
    IN  [hits |-> hits,
         misses |-> misses,
         total_requests |-> total,
         hit_rate_percent |-> IF total > 0 THEN HitRate(hits, total) ELSE 0,
         cached_files |-> Cardinality(DOMAIN cache)]

(***************************************************************************)
(* parse_file (buttonParser.py:1246-1333)                                  *)
(***************************************************************************)
\* open()/read() fails: the path names no readable file
ReadRaises(file_path) == disk[file_path] = Unreadable
\* ast.parse raises SyntaxError on this text
AstParseRaises(source_code) == source_code = "src_syntax"
\* visitor.visit raises on this text (unbounded recursion over a cyclic
\* hierarchy, see _build_node_tree)
VisitRaises(source_code) == source_code = "src_cyclic"

\* the dictionary assembled from the visitor after a complete traversal
VisitorResult(source_code) ==
    IF source_code = "src_a"
    THEN [components |-> << [type |-> "button",
                             properties |-> [label |-> PyStr(<<"A">>)],
                             line |-> 1] >>,
          errors |-> << >>, views |-> << >>]
    ELSE [components |-> << >>, errors |-> << >>, views |-> << >>]

ErrorResult(message) ==
    [components |-> << >>,
     errors |-> << [severity |-> "error", message |-> message] >>,
     views |-> << >>]

\* Python's exception classes: the bases of each class raised in the try block
Bases(exc) ==
    CASE exc = "SyntaxError" -> {"SyntaxError", "Exception"}
      [] exc = "ImportError" -> {"ImportError", "Exception"}
      [] exc = "FileNotFoundError" -> {"FileNotFoundError", "OSError", "Exception"}
      [] exc = "RecursionError" -> {"RecursionError", "RuntimeError", "Exception"}

\* the last clause catches only the classes its suggestions name
ExceptClauseNarrow(exc) ==
    IF "SyntaxError" \in Bases(exc) THEN "SyntaxError"
    ELSE IF "ImportError" \in Bases(exc) THEN "ImportError"
    ELSE IF Bases(exc) \cap {"KeyError", "AttributeError", "TypeError"} # {}
    THEN "Exception"
    ELSE "propagates"

\* the except clauses of parse_file, in order; "propagates" when none matches
ExceptClause(exc) ==
    IF "SyntaxError" \in Bases(exc) THEN "SyntaxError"
    ELSE IF "ImportError" \in Bases(exc) THEN "ImportError"
    ELSE IF "Exception" \in Bases(exc) THEN "Exception"
    ELSE "propagates"

Handled(exc, state) ==
    LET clause == ExceptClause(exc)
    IN  [cache |-> state.cache, hits |-> state.hits, misses |-> state.misses,
         value |-> CASE clause = "SyntaxError" -> ErrorResult("Syntax error")
                     [] clause = "ImportError" -> ErrorResult("Import error")
                     [] clause = "Exception" -> ErrorResult("Parse error")
                     [] OTHER -> None,
         raised |-> clause = "propagates",
         cached |-> FALSE]

\* parse_file: cache, counters, return value, whether an exception left the
\* call, and whether the value came from the cache
parse_file(file_path, cache_available) ==
    LET unchanged == [cache |-> cache, hits |-> hits, misses |-> misses]
    IN  IF ReadRaises(file_path) THEN Handled("FileNotFoundError", unchanged)
        ELSE
        LET source_code == disk[file_path]
            looked == IF cache_available THEN get(file_path, source_code)
                      ELSE [cache |-> cache, hits |-> hits, misses |-> misses,
                            value |-> None]
            result == VisitorResult(source_code)
        IN  IF cache_available /\ looked.value # None
            THEN [cache |-> looked.cache, hits |-> looked.hits,
                  misses |-> looked.misses, value |-> looked.value,
                  raised |-> FALSE, cached |-> TRUE]
            ELSE IF AstParseRaises(source_code) THEN Handled("SyntaxError", looked)
            ELSE IF VisitRaises(source_code) THEN Handled("RecursionError", looked)
            ELSE [cache |-> IF cache_available
                            THEN set(looked.cache, file_path, source_code, result)
                            ELSE looked.cache,
                  hits |-> looked.hits, misses |-> looked.misses,
                  value |-> result, raised |-> FALSE, cached |-> FALSE]

(***************************************************************************)
(* Cache and parse_file actions                                            *)
(***************************************************************************)
NoCall == [op |-> "none"]

Callers == {"t1", "t2"}

\* a thread's frame of get: the statement it is at, the arguments, the
\* local entry, what the call returned, and whether another thread has
\* removed the file's entry since this call looked it up
Frame(pc, file_path, content, entry, value, removed) ==
    [pc |-> pc, file_path |-> file_path, content |-> content, entry |-> entry,
     value |-> value, removed |-> removed]

Idle == Frame("idle", "", "", None, None, FALSE)

InitCache ==
    /\ callers = [t \in Callers |-> Idle]
    /\ cache = EmptyDict
    /\ hits = 0
    /\ misses = 0
    /\ now = 0
    /\ disk = [f \in Files |-> Unreadable]
    /\ calls = 0
    /\ ret = NoCall

CacheGet(f, c) ==
    /\ calls < MaxCalls
    /\ LET out == get(f, c)
       IN  /\ cache' = out.cache
           /\ hits' = out.hits
           /\ misses' = out.misses
           /\ ret' = [op |-> "get", file |-> f, content |-> c, value |-> out.value]
    /\ calls' = calls + 1
    /\ UNCHANGED <<now, disk, callers, visitorVars, pureVars>>

CacheSet(f, c, r) ==
    /\ calls < MaxCalls
    /\ cache' = set(cache, f, c, r)
    /\ ret' = [op |-> "set", file |-> f, content |-> c, result |-> r,
               value |-> None]
    /\ calls' = calls + 1
    /\ UNCHANGED <<hits, misses, now, disk, callers, visitorVars, pureVars>>

CacheInvalidate(f) ==
    /\ calls < MaxCalls
    /\ cache' = invalidate(f)
    /\ ret' = [op |-> "invalidate", file |-> f, value |-> None]
    /\ calls' = calls + 1
    /\ UNCHANGED <<hits, misses, now, disk, callers, visitorVars, pureVars>>

CacheClear ==
    /\ calls < MaxCalls
    /\ cache' = EmptyDict
    /\ hits' = 0
    /\ misses' = 0
    /\ ret' = [op |-> "clear", value |-> None]
    /\ calls' = calls + 1
    /\ UNCHANGED <<now, disk, callers, visitorVars, pureVars>>

CacheGetStats ==
    /\ calls < MaxCalls
    /\ ret' = [op |-> "get_stats", value |-> get_stats]
    /\ calls' = calls + 1
    /\ UNCHANGED <<cache, hits, misses, now, disk, callers, visitorVars, pureVars>>

\* the clock read by time.time() advances between calls
Tick ==
    /\ now + TickDelta <= MaxTime
    /\ now' = now + TickDelta
    /\ UNCHANGED <<cache, hits, misses, disk, calls, ret, callers, visitorVars, pureVars>>

\* the file is written, created or removed between calls
Edit(f, c) ==
    /\ disk[f] # c
    /\ disk' = [disk EXCEPT ![f] = c]
    /\ UNCHANGED <<cache, hits, misses, now, calls, ret, callers, visitorVars, pureVars>>

ParseFile(f) ==
    /\ calls < MaxCalls
    /\ LET out == parse_file(f, CACHE_AVAILABLE)
       IN  /\ cache' = out.cache
           /\ hits' = out.hits
           /\ misses' = out.misses
           /\ ret' = [op |-> "parse_file", file |-> f, content |-> disk[f],
                      value |-> out.value, raised |-> out.raised,
                      cached |-> out.cached]
    /\ calls' = calls + 1
    /\ UNCHANGED <<now, disk, callers, visitorVars, pureVars>>

(***************************************************************************)
(* Style normalisation applied to one style string                         *)
(***************************************************************************)
StylePrefixes == { << >>, <<"ButtonStyle">>, <<"discord", "ButtonStyle">>,
                   <<"MyButtonStyle">>, <<"a">> }
StyleTokens == { <<"primary">>, <<"secondary">>, <<"success">>, <<"danger">>,
                 <<"link">>, <<"green">>, <<"red">>, <<"grey">>, <<"gray">>,
                 <<"blurple">>, <<"primaryx">>, <<"xred">>, <<"Primary">>,
                 <<"unknown">>, <<"primary", "value">> }
\* the strings _evaluate_value can hand to the normaliser: dotted attribute
\* chains and string constants
StyleStrings == { Dotted(p \o t) : p \in StylePrefixes, t \in StyleTokens }

NotCalled == <<"not called">>

InitPure ==
    /\ style_arg = << >>
    /\ style_ret = NotCalled

NormalizeButtonStyle ==
    /\ style_ret = NotCalled
    /\ style_ret' = _normalize_button_style(style_arg)
    /\ UNCHANGED <<style_arg, visitorVars, cacheVars>>

(***************************************************************************)
(* ParseCache.get statement by statement, on the cache that get_cache()    *)
(* hands to every thread (parseCache.py:45-66, 131-140)                    *)
(***************************************************************************)
\* the statements of get at which a thread may be preempted
InGet == {"entry", "pop_changed", "age", "pop_expired"}

Free(t) == callers[t].pc \in {"idle", "returned"}

\* the frames after a thread other than the sleeping ones has removed the
\* entries of `keys` from the cache
Removing(t, keys) ==
    [u \in Callers |->
        IF /\ u # t
           /\ callers[u].pc \in InGet
           /\ callers[u].entry # None
           /\ callers[u].file_path \in keys \cap DOMAIN cache
        THEN [callers[u] EXCEPT !.removed = TRUE]
        ELSE callers[u]]

Returned(frame, value) == [frame EXCEPT !.pc = "returned", !.value = value]

\* every pop raises
PopRaisesAlways(d, key) == TRUE

\* dict.pop(key) without a default raises KeyError when the key is absent
PopRaises(d, key) == key \notin DOMAIN d

\* entry = self.cache.get(file_path)
GetLookup(t, f, c) ==
    /\ Free(t)
    /\ calls < MaxCalls
    /\ calls' = calls + 1
    /\ callers' = [callers EXCEPT ![t] =
                      Frame("entry", f, c,
                            IF f \in DOMAIN cache THEN cache[f] ELSE None,
                            None, FALSE)]
    /\ UNCHANGED <<cache, hits, misses, now, disk, ret, visitorVars, pureVars>>

\* if entry is None: ... ; if entry.content_hash != content_hash:
GetCheck(t) ==
    LET frame == callers[t]
    IN  /\ frame.pc = "entry"
        /\ IF frame.entry = None
           THEN /\ misses' = misses + 1
                /\ callers' = [callers EXCEPT ![t] = Returned(frame, None)]
           ELSE /\ misses' = misses
                /\ callers' = [callers EXCEPT ![t].pc =
                                  IF HashDiffers(frame.entry, _hash_content(frame.content))
                                  THEN "pop_changed" ELSE "age"]
        /\ UNCHANGED <<cache, hits, now, disk, calls, ret, visitorVars, pureVars>>

\* age = time.time() - entry.timestamp; if age > self.max_age: ... ;
\* self.hits += 1; return entry.result
GetAge(t) ==
    LET frame == callers[t]
    IN  /\ frame.pc = "age"
        /\ IF IsExpired(now - frame.entry.timestamp)
           THEN /\ hits' = hits
                /\ callers' = [callers EXCEPT ![t].pc = "pop_expired"]
           ELSE /\ hits' = hits + 1
                /\ callers' = [callers EXCEPT ![t] = Returned(frame, frame.entry.result)]
        /\ UNCHANGED <<cache, misses, now, disk, calls, ret, visitorVars, pureVars>>

\* self.cache.pop(file_path); self.misses += 1; return None
GetPop(t) ==
    LET frame == callers[t]
    IN  /\ frame.pc \in {"pop_changed", "pop_expired"}
        /\ IF PopRaises(cache, frame.file_path)
           THEN /\ cache' = cache
                /\ misses' = misses
                /\ callers' = [callers EXCEPT ![t].pc = "KeyError"]
           ELSE /\ cache' = DictPop(cache, frame.file_path)
                /\ misses' = misses + 1
                /\ callers' = [Removing(t, {frame.file_path}) EXCEPT
                                  ![t] = Returned(frame, None)]
        /\ UNCHANGED <<hits, now, disk, calls, ret, visitorVars, pureVars>>

\* set, invalidate and clear called by a thread while others are in get
SetBy(t, f, c, r) ==
    /\ Free(t)
    /\ calls < MaxCalls
    /\ calls' = calls + 1
    /\ cache' = set(cache, f, c, r)
    /\ UNCHANGED <<hits, misses, now, disk, ret, callers, visitorVars, pureVars>>

InvalidateBy(t, f) ==
    /\ Free(t)
    /\ calls < MaxCalls
    /\ calls' = calls + 1
    /\ cache' = invalidate(f)
    /\ callers' = Removing(t, {f})
    /\ UNCHANGED <<hits, misses, now, disk, ret, visitorVars, pureVars>>

ClearBy(t) ==
    /\ Free(t)
    /\ calls < MaxCalls
    /\ calls' = calls + 1
    /\ cache' = EmptyDict
    /\ hits' = 0
    /\ misses' = 0
    /\ callers' = Removing(t, DOMAIN cache)
    /\ UNCHANGED <<now, disk, ret, visitorVars, pureVars>>

(***************************************************************************)
(* Syntax trees (the ast module's node classes)                            *)
(***************************************************************************)
\* an absent Optional[str] argument or field
NoName == "None"

Constant(value) == [t |-> "Constant", value |-> value]
\* ast.Name when the path has one identifier, else the ast.Attribute chain
\* path[1].path[2]. ... over the ast.Name path[1]
Ref(path) == IF Len(path) = 1 THEN [t |-> "Name", id |-> path[1]]
             ELSE [t |-> "Attribute", path |-> path]
JoinedStr == [t |-> "JoinedStr"]
\* an optional child that is not there (node.value of `x: T`)
Absent == [t |-> "Absent"]
List(elts) == [t |-> "List", elts |-> elts]
ListComp(elt) == [t |-> "ListComp", elt |-> elt]
IfExp(body, orelse) == [t |-> "IfExp", body |-> body, orelse |-> orelse]
Keyword(arg, value) == [arg |-> arg, value |-> value]
\* pos tells the calls of one statement apart; lineno is filled in when the
\* statement is reached
Call(pos, func, args, keywords) ==
    [t |-> "Call", pos |-> pos, lineno |-> 0, func |-> func, args |-> args,
     keywords |-> keywords]

Assign(targets, value) == [t |-> "Assign", targets |-> targets, value |-> value]
AnnAssign(target, value) == [t |-> "AnnAssign", target |-> target, value |-> value]
Expr(value) == [t |-> "Expr", value |-> value]
ClassDef(name, bases) == [t |-> "ClassDef", name |-> name, bases |-> bases]
FunctionDef(name, decorator_list) ==
    [t |-> "FunctionDef", name |-> name, decorator_list |-> decorator_list]
AsyncFunctionDef(name, decorator_list) ==
    [t |-> "AsyncFunctionDef", name |-> name, decorator_list |-> decorator_list]

\* id(node): the identity of a call node
id(node) == <<node.lineno, node.pos>>

RECURSIVE AtLine(_, _)
\* the expression with every call in it placed on the given line
AtLine(e, line) ==
    IF e.t = "Call"
    THEN [e EXCEPT !.lineno = line,
                   !.args = [i \in 1..Len(e.args) |-> AtLine(e.args[i], line)],
                   !.keywords = [i \in 1..Len(e.keywords) |->
                                    Keyword(e.keywords[i].arg,
                                            AtLine(e.keywords[i].value, line))]]
    ELSE IF e.t = "List"
    THEN [e EXCEPT !.elts = [i \in 1..Len(e.elts) |-> AtLine(e.elts[i], line)]]
    ELSE IF e.t = "ListComp" THEN [e EXCEPT !.elt = AtLine(e.elt, line)]
    ELSE IF e.t = "IfExp"
    THEN [e EXCEPT !.body = AtLine(e.body, line), !.orelse = AtLine(e.orelse, line)]
    ELSE e

(***************************************************************************)
(* Pattern matchers (buttonParser.py:190-195, 284-541)                     *)
(***************************************************************************)
\* the shape shared by the _is_*_call methods: x.ui.Name, ui.Name or Name
IsUiCall(func, names) ==
    IF func.t = "Attribute"
    THEN /\ func.path[Len(func.path)] \in names
         /\ IF Len(func.path) > 2
            THEN func.path[Len(func.path) - 1] = "ui"
            ELSE func.path[1] = "ui"
    ELSE func.t = "Name" /\ func.id \in names

\* only x.ui.name and ui.name are decorators
IsDecoratorOfUi(func, names) ==
    /\ func.t = "Attribute"
    /\ func.path[Len(func.path)] \in names
    /\ func.path[Len(func.path) - 1] = "ui"

\* the shape shared by _is_button_decorator and _is_select_decorator:
\* x.ui.name or <any identifier>.name
IsDecorator(func, names) ==
    /\ func.t = "Attribute"
    /\ func.path[Len(func.path)] \in names
    /\ (Len(func.path) > 2 => func.path[Len(func.path) - 1] = "ui")

_is_button_call(node) == IsUiCall(node.func, {"Button"})
_is_button_decorator(node) == IsDecorator(node.func, {"button"})
_is_select_menu_call(node) ==
    IsUiCall(node.func, {"Select", "StringSelect", "UserSelect", "RoleSelect",
                         "ChannelSelect"})
_is_select_decorator(node) ==
    IsDecorator(node.func, {"select", "string_select", "user_select",
                            "role_select", "channel_select"})
_is_select_option_call(node) ==
    \/ node.func.t = "Name" /\ node.func.id = "SelectOption"
    \/ node.func.t = "Attribute" /\ node.func.path[Len(node.func.path)] = "SelectOption"
_is_text_input_call(node) == IsUiCall(node.func, {"TextInput"})
_is_container_call(node) == IsUiCall(node.func, {"Container"})
_is_section_call(node) == IsUiCall(node.func, {"Section"})
_is_action_row_call(node) == IsUiCall(node.func, {"ActionRow"})
_is_text_display_call(node) == IsUiCall(node.func, {"TextDisplay"})
_is_label_call(node) == IsUiCall(node.func, {"Label"})
_is_separator_call(node) == IsUiCall(node.func, {"Separator"})
_is_thumbnail_call(node) == IsUiCall(node.func, {"Thumbnail"})
_is_file_call(node) == IsUiCall(node.func, {"File"})
_is_media_gallery_call(node) == IsUiCall(node.func, {"MediaGallery"})
_is_file_upload_call(node) == IsUiCall(node.func, {"FileUpload"})
_is_modal_call(node) ==
    node.func.t = "Attribute" /\ IsUiCall(node.func, {"Modal"})
_is_add_item_call(node) ==
    node.func.t = "Attribute" /\ node.func.path[Len(node.func.path)] = "add_item"
_is_hierarchy_method(node, method_name) ==
    node.func.t = "Attribute" /\ node.func.path[Len(node.func.path)] = method_name

(***************************************************************************)
(* Value evaluation (buttonParser.py:584-620)                              *)
(***************************************************************************)
_evaluate_attribute(node) == Dotted(node.path)

\* nothing in the try block can raise, so no warning is ever appended
_evaluate_value(node) ==
    IF node.t = "Constant" THEN node.value
    ELSE IF node.t = "Attribute" THEN PyStr(_evaluate_attribute(node))
    ELSE IF node.t = "Name"
         THEN PyStr(<<"<", "v", "a", "r", "i", "a", "b", "l", "e", ":">> \o Chars(node.id) \o <<">">>)
    ELSE None

_normalize_text_input_style(style) ==
    IF IsSubstring(<<"s", "h", "o", "r", "t">>, Lower(style)) THEN <<"s", "h", "o", "r", "t">>
    ELSE IF \/ IsSubstring(<<"p", "a", "r", "a", "g", "r", "a", "p", "h">>, Lower(style))
            \/ IsSubstring(<<"l", "o", "n", "g">>, Lower(style))
         THEN <<"p", "a", "r", "a", "g", "r", "a", "p", "h">>
    ELSE <<"s", "h", "o", "r", "t">>

(***************************************************************************)
(* Option resolution (buttonParser.py:704-768)                             *)
(***************************************************************************)
PyList(items) == [k |-> "list", items |-> items]

\* the value is stored as it is evaluated, None included
OptionValueAsEvaluated(value) == value

\* the value stored for a keyword of an option
OptionValue(value) ==
    IF value # None THEN value
    ELSE PyStr(<<"<", "d", "y", "n", "a", "m", "i", "c", ">">>)

RECURSIVE OptionKeywords(_, _)
OptionKeywords(keywords, option_props) ==
    IF Len(keywords) = 0 THEN option_props
    ELSE OptionKeywords(Tail(keywords),
             IF Head(keywords).arg \in {"label", "value", "description", "emoji", "default"}
             THEN DictSet(option_props, Head(keywords).arg,
                          OptionValue(_evaluate_value(Head(keywords).value)))
             ELSE option_props)

\* x if x, else None / [x] if x is not None, else []
OrNone(props) == IF DOMAIN props # {} THEN props ELSE None
Listed(option) == IF option # None THEN <<option>> ELSE << >>

\* the option's dictionary, or None when it is empty
_extract_single_select_option(call_node) ==
    OrNone(OptionKeywords(call_node.keywords, EmptyDict))

RECURSIVE ListOptions(_)
ListOptions(elts) ==
    IF Len(elts) = 0 THEN << >>
    ELSE Listed(IF Head(elts).t = "Call"
                THEN _extract_single_select_option(Head(elts)) ELSE None)
         \o ListOptions(Tail(elts))

\* the false branch is preferred
FirstOfFalse(true_options, false_options) ==
    IF false_options # None THEN false_options
    ELSE IF true_options # None THEN true_options
    ELSE None

\* the first of the two that is not None
FirstOf(true_options, false_options) ==
    IF true_options # None THEN true_options
    ELSE IF false_options # None THEN false_options
    ELSE None

\* the list of the options found, None when there are none
ListOrNone(options) == IF Len(options) > 0 THEN PyList(options) ELSE None

RECURSIVE _extract_select_options(_, _), OptionsOf(_, _)
\* _extract_select_options past the lookup of a name
OptionsOf(bindings, node) ==
    IF node.t = "IfExp"
    THEN FirstOf(_extract_select_options(bindings, node.body),
                 _extract_select_options(bindings, node.orelse))
    ELSE IF node.t = "ListComp"
    THEN IF node.elt.t = "Call" /\ _is_select_option_call(node.elt)
         THEN ListOrNone(Listed(_extract_single_select_option(node.elt)))
         ELSE None
    ELSE IF node.t = "List" THEN ListOrNone(ListOptions(node.elts))
    ELSE None

\* the list of options, or None; bindings is self.variables
_extract_select_options(bindings, node) ==
    OptionsOf(bindings, IF node.t = "Name" /\ node.id \in DOMAIN bindings
                        THEN bindings[node.id] ELSE node)

(***************************************************************************)
(* Property extraction (buttonParser.py:543-582, 661-702, 770-1093,        *)
(* 1222-1243).  v is the visitor: a record of the fields of self.          *)
(***************************************************************************)
\* every keyword is stored
IsAllowedAny(arg_name, allowed) == TRUE

IsAllowed(arg_name, allowed) == arg_name \in allowed

\* the value stored for a keyword; styled names the method whose loop
\* normalises the style argument
Stored(arg_name, value, styled) ==
    IF arg_name = "style" /\ value.k = "str" /\ styled = "button"
    THEN PyStr(_normalize_button_style(value.s))
    ELSE IF arg_name = "style" /\ value.k = "str" /\ styled = "text_input"
    THEN PyStr(_normalize_text_input_style(value.s))
    ELSE value

\* properties after one keyword whose value evaluates to value
StoreKeyword(properties, arg_name, value, allowed, styled) ==
    IF IsAllowed(arg_name, allowed) /\ value # None
    THEN DictSet(properties, arg_name, Stored(arg_name, value, styled))
    ELSE properties

RECURSIVE ExtractKeywords(_, _, _, _)
\* the keyword loop of the _extract_*_properties methods
ExtractKeywords(keywords, allowed, styled, properties) ==
    IF Len(keywords) = 0 THEN properties
    ELSE ExtractKeywords(Tail(keywords), allowed, styled,
             StoreKeyword(properties, Head(keywords).arg,
                          _evaluate_value(Head(keywords).value), allowed, styled))

\* properties after one keyword of a select menu
StoreSelectKeyword(properties, arg_name, value, bindings, node) ==
    IF IsAllowed(arg_name, {"custom_id", "placeholder", "min_values",
                            "max_values", "disabled", "row"})
    THEN (IF value # None THEN DictSet(properties, arg_name, value) ELSE properties)
    ELSE IF arg_name = "options"
    THEN StoreKeyword(properties, "options", _extract_select_options(bindings, node),
                      {"options"}, "none")
    ELSE properties

RECURSIVE SelectKeywords(_, _, _)
SelectKeywords(bindings, keywords, properties) ==
    IF Len(keywords) = 0 THEN properties
    ELSE SelectKeywords(bindings, Tail(keywords),
             StoreSelectKeyword(properties, Head(keywords).arg,
                                _evaluate_value(Head(keywords).value),
                                bindings, Head(keywords).value))

\* the spacing of a separator (buttonParser.py:902-911)
Spacing(spacing_lower) ==
    IF IsSubstring(<<"s", "m", "a", "l", "l">>, spacing_lower) THEN <<"s", "m", "a", "l", "l">>
    ELSE IF IsSubstring(<<"m", "e", "d", "i", "u", "m">>, spacing_lower)
    THEN <<"m", "e", "d", "i", "u", "m">>
    ELSE IF IsSubstring(<<"l", "a", "r", "g", "e">>, spacing_lower) THEN <<"l", "a", "r", "g", "e">>
    ELSE <<"m", "e", "d", "i", "u", "m">>

StoreSpacing(properties, arg_name, value) ==
    IF arg_name = "spacing" /\ value # None /\ value.k = "str"
    THEN DictSet(properties, "spacing", PyStr(Spacing(Lower(value.s))))
    ELSE properties

RECURSIVE SeparatorKeywords(_, _)
SeparatorKeywords(keywords, properties) ==
    IF Len(keywords) = 0 THEN properties
    ELSE SeparatorKeywords(Tail(keywords),
             StoreSpacing(properties, Head(keywords).arg,
                          _evaluate_value(Head(keywords).value)))

\* the items of a media gallery, from a keyword or the first positional
\* argument (buttonParser.py:1022-1028, 1032-1038)
StoreItems(properties, value) ==
    IF value = None THEN properties
    ELSE IF value.k = "list"
    THEN DictSet(DictSet(properties, "item_count", PyInt(Len(value.items))),
                 "items", value)
    ELSE DictSet(properties, "items", PyStr(<<"<", "d", "y", "n", "a", "m", "i", "c", ">">>))

RECURSIVE MediaGalleryKeywords(_, _)
MediaGalleryKeywords(keywords, properties) ==
    IF Len(keywords) = 0 THEN properties
    ELSE MediaGalleryKeywords(Tail(keywords),
             IF Head(keywords).arg = "items"
             THEN StoreItems(properties, _evaluate_value(Head(keywords).value))
             ELSE properties)

WithCallback(properties, callback) ==
    IF callback # NoName THEN DictSet(properties, "callback", PyStr(Chars(callback)))
    ELSE properties

\* the record of one component; node is the identity of the dictionary,
\* taken from the call it is built from
Component(type, properties, line, call_node) ==
    [type |-> type, properties |-> properties, line |-> line, node |-> id(call_node)]

\* every function counts as inside a class
InClassAlways(v) == TRUE

InClass(v) == v.current_class # NoName

\* the common tail of the _extract_*_properties methods: append to
\* self.components, to the class when inside one, and track under the name
Emit(v, data, variable_name) ==
    [v EXCEPT !.components = Append(@, data),
              !.class_components = IF InClass(v) THEN Append(@, data) ELSE @,
              !.hierarchy_tracking =
                  IF variable_name # NoName
                  THEN DictSet(@, variable_name,
                               [nodeType |-> "item", data |-> data, line |-> data.line])
                  ELSE @]

_extract_button_properties(v, call_node, line, callback, variable_name) ==
    Emit(v, Component("button",
                      WithCallback(ExtractKeywords(call_node.keywords,
                          {"label", "style", "custom_id", "disabled", "emoji", "url", "row"},
                          "button", EmptyDict), callback),
                      line, call_node), variable_name)

_extract_select_menu_properties(v, call_node, line, callback, variable_name) ==
    Emit(v, Component("select_menu",
                      WithCallback(SelectKeywords(v.variables, call_node.keywords,
                                                  EmptyDict), callback),
                      line, call_node), variable_name)

_extract_text_input_properties(v, call_node, line, callback, variable_name) ==
    Emit(v, Component("text_input",
                      WithCallback(ExtractKeywords(call_node.keywords,
                          {"label", "style", "custom_id", "placeholder", "default",
                           "required", "min_length", "max_length", "row"},
                          "text_input", EmptyDict), callback),
                      line, call_node), variable_name)

_extract_text_display_properties(v, call_node, line, variable_name) ==
    Emit(v, Component("text_display",
                      ExtractKeywords(call_node.keywords, {"content", "style"},
                                      "none", EmptyDict),
                      line, call_node), variable_name)

_extract_label_properties(v, call_node, line, variable_name) ==
    Emit(v, Component("label",
                      ExtractKeywords(call_node.keywords, {"text", "for"},
                                      "none", EmptyDict),
                      line, call_node), variable_name)

_extract_separator_properties(v, call_node, line, variable_name) ==
    Emit(v, Component("separator", SeparatorKeywords(call_node.keywords, EmptyDict),
                      line, call_node), variable_name)

_extract_thumbnail_properties(v, call_node, line, variable_name) ==
    Emit(v, Component("thumbnail",
                      ExtractKeywords(call_node.keywords,
                                      {"url", "alt", "width", "height"},
                                      "none", EmptyDict),
                      line, call_node), variable_name)

\* the first positional argument, taken when the keywords left key unset
\* (buttonParser.py:984-987)
WithPositional(named, key, args) ==
    IF Len(args) > 0 /\ key \notin DOMAIN named
    THEN StoreKeyword(named, key, _evaluate_value(args[1]), {key}, "none")
    ELSE named

_extract_file_properties(v, call_node, line, variable_name) ==
    Emit(v, Component("file",
                      WithPositional(ExtractKeywords(call_node.keywords,
                                         {"filename", "url", "size"}, "none", EmptyDict),
                                     "filename", call_node.args),
                      line, call_node), variable_name)

\* the first positional argument, taken when the keywords left items unset
\* (buttonParser.py:1031-1038)
WithPositionalItems(named, args) ==
    IF Len(args) > 0 /\ "items" \notin DOMAIN named
    THEN StoreItems(named, _evaluate_value(args[1]))
    ELSE named

_extract_media_gallery_properties(v, call_node, line, variable_name) ==
    Emit(v, Component("media_gallery",
                      WithPositionalItems(MediaGalleryKeywords(call_node.keywords, EmptyDict),
                                          call_node.args),
                      line, call_node), variable_name)

_extract_file_upload_properties(v, call_node, line, variable_name) ==
    Emit(v, Component("file_upload",
                      ExtractKeywords(call_node.keywords, {"accept", "multiple"},
                                      "none", EmptyDict),
                      line, call_node), variable_name)

\* appended to self.components only: not to the class, not tracked
_extract_modal_properties(v, call_node, line) ==
    [v EXCEPT !.components =
        Append(@, Component("modal",
                            ExtractKeywords(call_node.keywords, {"title", "custom_id"},
                                            "none", EmptyDict),
                            line, call_node))]

(***************************************************************************)
(* Hierarchy tracking and building (buttonParser.py:1095-1220)             *)
(***************************************************************************)
LabelOf(keywords) ==
    LET labelled == {i \in 1..Len(keywords) : keywords[i].arg = "label"}
        lastOne == CHOOSE i \in labelled : \A j \in labelled : j <= i
    IN  IF labelled = {} THEN None ELSE _evaluate_value(keywords[lastOne].value)

_track_container(v, variable_name, node, line) ==
    [v EXCEPT !.hierarchy_tracking = DictSet(@, variable_name,
        [nodeType |-> "container", type |-> "container", line |-> line,
         properties |-> [label |-> LabelOf(node.keywords)], children |-> << >>])]

_track_section(v, variable_name, node, line) ==
    [v EXCEPT !.hierarchy_tracking = DictSet(@, variable_name,
        [nodeType |-> "section", type |-> "section", line |-> line,
         properties |-> [label |-> LabelOf(node.keywords)], children |-> << >>])]

\* row_number after a keyword whose value evaluates to row_val
RowAfter(row_number, arg_name, row_val) ==
    IF arg_name = "row" /\ row_val.k \in {"int", "bool"} THEN row_val ELSE row_number

RECURSIVE RowOf(_, _)
\* the loop over node.keywords (buttonParser.py:1127-1132)
RowOf(keywords, row_number) ==
    IF Len(keywords) = 0 THEN row_number
    ELSE RowOf(Tail(keywords),
               RowAfter(row_number, Head(keywords).arg,
                        _evaluate_value(Head(keywords).value)))

_track_action_row(v, variable_name, node, line) ==
    [v EXCEPT !.hierarchy_tracking = DictSet(@, variable_name,
        [nodeType |-> "actionrow", row |-> RowOf(node.keywords, PyInt(0)), line |-> line,
         children |-> << >>])]

\* the receiver of the call when it is a plain name
ParentVar(node) ==
    IF node.func.t = "Attribute" /\ Len(node.func.path) = 2
    THEN node.func.path[1] ELSE NoName

InlineKey(arg) == "_inline_" \o ToString(id(arg))

ChildVar(node) ==
    IF Len(node.args) = 0 THEN NoName
    ELSE IF node.args[1].t = "Name" THEN node.args[1].id
    ELSE IF node.args[1].t = "Call" THEN InlineKey(node.args[1])
    ELSE NoName

\* the component an inline argument is bound to
InlineComponent(v) == v.class_components[Len(v.class_components)]

Relationship(parent, child, method, line) ==
    [parent |-> parent, child |-> child, method |-> method, line |-> line]

_track_hierarchy_call(v, node, method_name) ==
    LET parent_var == ParentVar(node)
        child_var == ChildVar(node)
        tracked == IF /\ Len(node.args) > 0
                      /\ node.args[1].t = "Call"
                      /\ Len(v.class_components) > 0
                   THEN [v EXCEPT !.hierarchy_tracking = DictSet(@, child_var,
                            [nodeType |-> "item", data |-> InlineComponent(v),
                             line |-> node.args[1].lineno])]
                   ELSE v
    IN  IF parent_var # NoName /\ child_var # NoName
        THEN [tracked EXCEPT !.hierarchy_relationships =
                 Append(@, Relationship(parent_var, child_var, method_name, node.lineno))]
        ELSE tracked

\* each relationship replaces the children of its parent
ParentMapLastChild(relationships) ==
    [parent \in {relationships[i].parent : i \in 1..Len(relationships)} |->
        LET mine == SelectSeq(relationships, LAMBDA rel : rel.parent = parent)
        IN  <<mine[Len(mine)].child>>]

\* ParentMap[parent]: the children of its relationships, in order
ParentMap(relationships) ==
    [parent \in {relationships[i].parent : i \in 1..Len(relationships)} |->
        LET mine == SelectSeq(relationships, LAMBDA rel : rel.parent = parent)
        IN  [i \in 1..Len(mine) |-> mine[i].child]]

IsTracked(child, tracking) == child \in DOMAIN tracking

\* the outcome of a build: the nodes built, or raised when the recursion of
\* _build_node_tree does not end (RecursionError)
Built(nodes) == [raised |-> FALSE, nodes |-> nodes]
Unbounded == [raised |-> TRUE, nodes |-> << >>]

WithChildren(node_data, children) ==
    [x \in (DOMAIN node_data) \cup {"children"} |->
        IF x = "children" THEN children ELSE node_data[x]]

RECURSIVE _build_node_tree(_, _, _, _), BuildChildren(_, _, _, _)
\* the loop over child_vars that builds the node of every tracked name
BuildChildren(child_vars, parent_map, tracking, depth) ==
    IF Len(child_vars) = 0 THEN Built(<< >>)
    ELSE LET rest == BuildChildren(Tail(child_vars), parent_map, tracking, depth)
             child_node == _build_node_tree(Head(child_vars), parent_map, tracking, depth)
         IN  IF ~IsTracked(Head(child_vars), tracking) THEN rest
             ELSE IF child_node.raised \/ rest.raised THEN Unbounded
             ELSE Built(child_node.nodes \o rest.nodes)

\* depth counts the frames still available: a path through more frames than
\* there are tracked names repeats a name, and then the recursion never ends
_build_node_tree(var_name, parent_map, tracking, depth) ==
    IF depth = 0 THEN Unbounded
    ELSE LET node_data == tracking[var_name]
             children == IF var_name \in DOMAIN parent_map
                         THEN BuildChildren(parent_map[var_name], parent_map,
                                            tracking, depth - 1)
                         ELSE Built(<< >>)
         IN  IF children.raised THEN Unbounded
             ELSE IF Len(children.nodes) > 0
             THEN Built(<<WithChildren(node_data, children.nodes)>>)
             ELSE IF node_data.nodeType \in {"container", "section", "actionrow"}
             THEN Built(<<WithChildren(node_data, << >>)>>)
             ELSE Built(<<node_data>>)

\* every relationship gives a root
IsRootParentAny(parent) == TRUE

IsRootParent(parent) == parent = "self"

\* the list of roots
_build_hierarchy(v) ==
    LET relationships == v.hierarchy_relationships
        tracking == v.hierarchy_tracking
        parent_map == ParentMap(relationships)
        added == SelectSeq(relationships, LAMBDA rel : IsRootParent(rel.parent))
        root_vars == [i \in 1..Len(added) |-> added[i].child]
    IN  IF Len(relationships) = 0 THEN Built(<< >>)
        ELSE BuildChildren(root_vars, parent_map, tracking,
                           Cardinality(DOMAIN tracking) + 1)

(***************************************************************************)
(* The visit_* handlers (buttonParser.py:41-282)                           *)
(***************************************************************************)
\* no node is ever taken as processed
IsProcessedNever(v, node) == FALSE

IsProcessed(v, node) == id(node) \in v.processed_nodes
MarkProcessed(v, node) == [v EXCEPT !.processed_nodes = @ \cup {id(node)}]

\* the elif chain of visit_Assign (buttonParser.py:56-81)
AssignedCall(v, value, line, variable_name) ==
    IF _is_button_call(value)
    THEN _extract_button_properties(v, value, line, NoName, variable_name)
    ELSE IF _is_select_menu_call(value)
    THEN _extract_select_menu_properties(v, value, line, NoName, variable_name)
    ELSE IF _is_text_input_call(value)
    THEN _extract_text_input_properties(v, value, line, NoName, variable_name)
    ELSE IF _is_container_call(value) THEN _track_container(v, variable_name, value, line)
    ELSE IF _is_section_call(value) THEN _track_section(v, variable_name, value, line)
    ELSE IF _is_action_row_call(value) THEN _track_action_row(v, variable_name, value, line)
    ELSE IF _is_text_display_call(value)
    THEN _extract_text_display_properties(v, value, line, variable_name)
    ELSE IF _is_label_call(value) THEN _extract_label_properties(v, value, line, variable_name)
    ELSE IF _is_separator_call(value)
    THEN _extract_separator_properties(v, value, line, variable_name)
    ELSE IF _is_thumbnail_call(value)
    THEN _extract_thumbnail_properties(v, value, line, variable_name)
    ELSE IF _is_file_call(value) THEN _extract_file_properties(v, value, line, variable_name)
    ELSE IF _is_media_gallery_call(value)
    THEN _extract_media_gallery_properties(v, value, line, variable_name)
    ELSE IF _is_file_upload_call(value)
    THEN _extract_file_upload_properties(v, value, line, variable_name)
    ELSE v

\* the elif chain of _extract_add_item_component (buttonParser.py:213-232);
\* variable_name is None there, the argument being a call
AddedCall(v, arg, line) ==
    IF _is_button_call(arg) THEN _extract_button_properties(v, arg, line, NoName, NoName)
    ELSE IF _is_select_menu_call(arg)
    THEN _extract_select_menu_properties(v, arg, line, NoName, NoName)
    ELSE IF _is_text_input_call(arg)
    THEN _extract_text_input_properties(v, arg, line, NoName, NoName)
    ELSE IF _is_text_display_call(arg)
    THEN _extract_text_display_properties(v, arg, line, NoName)
    ELSE IF _is_label_call(arg) THEN _extract_label_properties(v, arg, line, NoName)
    ELSE IF _is_separator_call(arg) THEN _extract_separator_properties(v, arg, line, NoName)
    ELSE IF _is_thumbnail_call(arg) THEN _extract_thumbnail_properties(v, arg, line, NoName)
    ELSE IF _is_file_call(arg) THEN _extract_file_properties(v, arg, line, NoName)
    ELSE IF _is_media_gallery_call(arg)
    THEN _extract_media_gallery_properties(v, arg, line, NoName)
    ELSE IF _is_file_upload_call(arg)
    THEN _extract_file_upload_properties(v, arg, line, NoName)
    ELSE v

_extract_add_item_component(v, node) ==
    IF /\ Len(node.args) > 0
       /\ node.args[1].t = "Call"
       /\ ~IsProcessed(v, node.args[1])
    THEN AddedCall(MarkProcessed(v, node.args[1]), node.args[1], node.lineno)
    ELSE v

\* the condition under which visit_Call looks at relationship calls
TracksCalls(v) == v.in_init_method

RECURSIVE visit_Call(_, _), generic_visit(_, _)
\* visit every expression of the list, in order
generic_visit(v, exprs) ==
    IF Len(exprs) = 0 THEN v
    ELSE LET e == Head(exprs)
             after == IF e.t = "Call" THEN visit_Call(v, e)
                      ELSE IF e.t = "List" THEN generic_visit(v, e.elts)
                      ELSE IF e.t = "ListComp" THEN generic_visit(v, <<e.elt>>)
                      ELSE IF e.t = "IfExp" THEN generic_visit(v, <<e.body, e.orelse>>)
                      ELSE v
         IN  generic_visit(after, Tail(exprs))

visit_Call(v, node) ==
    LET handled ==
            IF TracksCalls(v) /\ _is_add_item_call(node)
            THEN _track_hierarchy_call(_extract_add_item_component(v, node), node, "add_item")
            ELSE IF TracksCalls(v) /\ _is_hierarchy_method(node, "add_section")
            THEN _track_hierarchy_call(v, node, "add_section")
            ELSE IF TracksCalls(v) /\ _is_hierarchy_method(node, "add_row")
            THEN _track_hierarchy_call(v, node, "add_row")
            ELSE IF TracksCalls(v) /\ _is_hierarchy_method(node, "append_item")
            THEN _track_hierarchy_call(v, node, "append_item")
            ELSE v
    IN  generic_visit(handled,
            node.args \o [i \in 1..Len(node.keywords) |-> node.keywords[i].value])

RECURSIVE AssignTargets(_, _, _)
\* the loop over node.targets of visit_Assign
AssignTargets(v, node, targets) ==
    IF Len(targets) = 0 THEN v
    ELSE LET target == Head(targets)
             bound == [v EXCEPT !.variables = DictSet(@, target.id, node.value)]
         IN  AssignTargets(
                 IF target.t # "Name" THEN v
                 ELSE IF node.value.t = "Call" /\ ~IsProcessed(bound, node.value)
                 THEN AssignedCall(MarkProcessed(bound, node.value), node.value,
                                   node.lineno, target.id)
                 ELSE bound,
                 node, Tail(targets))

visit_Assign(v, node) ==
    generic_visit(AssignTargets(v, node, node.targets), <<node.value>>)

\* the extractors are called with the variable name in the callback position
visit_AnnAssign(v, node) ==
    LET variable_name == node.target.id
        value == node.value
        handled ==
            IF /\ node.target.t = "Name"
               /\ value.t = "Call"
               /\ ~IsProcessed(v, value)
            THEN LET marked == MarkProcessed(v, value)
                 IN  IF _is_button_call(value)
                     THEN _extract_button_properties(marked, value, node.lineno,
                                                     variable_name, NoName)
                     ELSE IF _is_select_menu_call(value)
                     THEN _extract_select_menu_properties(marked, value, node.lineno,
                                                          variable_name, NoName)
                     ELSE IF _is_text_input_call(value)
                     THEN _extract_text_input_properties(marked, value, node.lineno,
                                                         variable_name, NoName)
                     ELSE marked
            ELSE v
    IN  generic_visit(handled, <<value>>)

\* an expression statement: ast.Expr has no handler of its own
visit_Expr(v, node) == generic_visit(v, <<node.value>>)

_get_base_name(node) ==
    IF node.t = "Name" THEN node.id
    ELSE IF node.t = "Attribute" THEN node.path[Len(node.path)]
    ELSE ""

\* the branch of visit_ClassDef's loop taken for one base, NoName for none
BaseClassType(base_name) ==
    LET name == Chars(base_name)
    IN  IF IsSubstring(<<"L", "a", "y", "o", "u", "t", "V", "i", "e", "w">>, name)
        THEN "LayoutView"
        ELSE IF IsSubstring(<<"V", "i", "e", "w">>, name) THEN "View"
        ELSE IF IsSubstring(<<"M", "o", "d", "a", "l">>, name) THEN "Modal"
        ELSE NoName

RECURSIVE ClassType(_)
\* the break out of the loop when a base has matched
OrNextBase(class_type, bases) ==
    IF class_type # NoName THEN class_type ELSE ClassType(bases)

\* class_type after the loop over node.bases: the first base that matches
ClassType(bases) ==
    IF Len(bases) = 0 THEN NoName
    ELSE OrNextBase(BaseClassType(_get_base_name(Head(bases))), Tail(bases))

NoException == "none"

\* the class goes on with the list of the enclosing class
SharedClassComponents(v) == v.class_components

\* the list self.class_components is bound to while the class is visited
FreshClassComponents(v) == << >>

\* the locals of the call of visit_ClassDef
ClassFrame(v, node, class_type) ==
    [t |-> "ClassDef", node |-> node, class_type |-> class_type,
     is_layout_view |-> class_type = "LayoutView",
     prev_class |-> v.current_class,
     prev_class_type |-> v.current_class_type,
     prev_class_line |-> v.current_class_line,
     prev_class_components |-> v.class_components]

\* the context set for a class of this type (buttonParser.py:121-133)
Entered(v, node, class_type) ==
    IF class_type # NoName
    THEN [v EXCEPT !.stack = Append(@, ClassFrame(v, node, class_type)),
                   !.current_class = node.name,
                   !.current_class_type = class_type,
                   !.current_class_line = PyInt(node.lineno),
                   !.class_components = FreshClassComponents(v)]
    ELSE [v EXCEPT !.stack = Append(@, ClassFrame(v, node, class_type))]

\* visit_ClassDef up to generic_visit (buttonParser.py:104-136)
EnterClassDef(v, node) == Entered(v, node, ClassType(node.bases))

View(v, frame, hierarchy) ==
    [name |-> v.current_class, type |-> v.current_class_type,
     line |-> v.current_class_line, components |-> v.class_components,
     children |-> hierarchy, isLayoutView |-> frame.is_layout_view,
     requiresManualLayout |-> frame.is_layout_view]

Pop(seq) == SubSeq(seq, 1, Len(seq) - 1)
Top(seq) == seq[Len(seq)]

\* visit_ClassDef after generic_visit (buttonParser.py:138-162)
LeaveClassDef(v) ==
    LET frame == Top(v.stack)
        hierarchy == _build_hierarchy(v)
    IN  IF frame.class_type = NoName THEN [v EXCEPT !.stack = Pop(@)]
        ELSE IF hierarchy.raised THEN [v EXCEPT !.raised = "RecursionError"]
        ELSE [v EXCEPT !.views = Append(@, View(v, frame, hierarchy.nodes)),
                       !.hierarchy_tracking = EmptyDict,
                       !.hierarchy_relationships = << >>,
                       !.current_class = frame.prev_class,
                       !.current_class_type = frame.prev_class_type,
                       !.current_class_line = frame.prev_class_line,
                       !.class_components = frame.prev_class_components,
                       !.stack = Pop(@)]

RECURSIVE Decorators(_, _, _)
\* the loop over node.decorator_list of visit_FunctionDef
Decorators(v, decorator_list, callback_name) ==
    IF Len(decorator_list) = 0 THEN v
    ELSE LET decorator == Head(decorator_list)
         IN  Decorators(
                 IF decorator.t = "Call" /\ _is_button_decorator(decorator)
                 THEN _extract_button_properties(v, decorator, decorator.lineno,
                                                 callback_name, NoName)
                 ELSE IF decorator.t = "Call" /\ _is_select_decorator(decorator)
                 THEN _extract_select_menu_properties(v, decorator, decorator.lineno,
                                                      callback_name, NoName)
                 ELSE v,
                 Tail(decorator_list), callback_name)

\* visit_FunctionDef and visit_AsyncFunctionDef up to generic_visit
\* (buttonParser.py:240-257, 262-279)
EnterFunctionDef(v, node) ==
    LET decorated == Decorators(v, node.decorator_list, node.name)
        frame == [t |-> "FunctionDef", node |-> node,
                  prev_in_init |-> v.in_init_method]
    IN  [decorated EXCEPT !.stack = Append(@, frame),
                          !.in_init_method =
                              IF node.name = "__init__" /\ InClass(v) THEN TRUE ELSE @]

\* the end of generic_visit, which reaches decorator_list after the body, and
\* the restore (buttonParser.py:257-260, 279-282)
LeaveFunctionDef(v) ==
    LET frame == Top(v.stack)
        visited == generic_visit(v, frame.node.decorator_list)
    IN  [visited EXCEPT !.in_init_method = frame.prev_in_init,
                        !.stack = Pop(@)]

(***************************************************************************)
(* The traversal as a state machine                                        *)
(***************************************************************************)
\* ComponentVisitor.__init__ (buttonParser.py:26-39)
NewVisitor ==
    [components |-> << >>, errors |-> << >>, views |-> << >>,
     current_class |-> NoName, current_class_type |-> NoName,
     current_class_line |-> None, class_components |-> << >>,
     in_init_method |-> FALSE, processed_nodes |-> {},
     variables |-> EmptyDict, hierarchy_tracking |-> EmptyDict,
     hierarchy_relationships |-> << >>,
     stack |-> << >>, lineno |-> 0, raised |-> NoException]

\* the visitor in the current state
Self ==
    [components |-> components, errors |-> errors, views |-> views,
     current_class |-> current_class, current_class_type |-> current_class_type,
     current_class_line |-> current_class_line,
     class_components |-> class_components, in_init_method |-> in_init_method,
     processed_nodes |-> processed_nodes, variables |-> variables,
     hierarchy_tracking |-> hierarchy_tracking,
     hierarchy_relationships |-> hierarchy_relationships,
     stack |-> stack, lineno |-> lineno, raised |-> raised]

\* the visitor in the next state
Becomes(v) ==
    /\ components' = v.components
    /\ errors' = v.errors
    /\ views' = v.views
    /\ current_class' = v.current_class
    /\ current_class_type' = v.current_class_type
    /\ current_class_line' = v.current_class_line
    /\ class_components' = v.class_components
    /\ in_init_method' = v.in_init_method
    /\ processed_nodes' = v.processed_nodes
    /\ variables' = v.variables
    /\ hierarchy_tracking' = v.hierarchy_tracking
    /\ hierarchy_relationships' = v.hierarchy_relationships
    /\ stack' = v.stack
    /\ lineno' = v.lineno
    /\ raised' = v.raised

Is(v) ==
    /\ components = v.components
    /\ errors = v.errors
    /\ views = v.views
    /\ current_class = v.current_class
    /\ current_class_type = v.current_class_type
    /\ current_class_line = v.current_class_line
    /\ class_components = v.class_components
    /\ in_init_method = v.in_init_method
    /\ processed_nodes = v.processed_nodes
    /\ variables = v.variables
    /\ hierarchy_tracking = v.hierarchy_tracking
    /\ hierarchy_relationships = v.hierarchy_relationships
    /\ stack = v.stack
    /\ lineno = v.lineno
    /\ raised = v.raised

\* the statement placed on the next line of the file
Placed(stmt, line) ==
    [x \in (DOMAIN stmt) \cup {"lineno"} |->
        IF x = "lineno" THEN line
        ELSE IF x = "value" THEN AtLine(stmt.value, line)
        ELSE IF x = "decorator_list"
        THEN [i \in 1..Len(stmt.decorator_list) |-> AtLine(stmt.decorator_list[i], line)]
        ELSE stmt[x]]

\* the handler NodeVisitor.visit dispatches a statement to
Dispatch(v, node) ==
    CASE node.t = "Assign" -> visit_Assign(v, node)
      [] node.t = "AnnAssign" -> visit_AnnAssign(v, node)
      [] node.t = "Expr" -> visit_Expr(v, node)
      [] node.t = "ClassDef" -> EnterClassDef(v, node)
      [] node.t \in {"FunctionDef", "AsyncFunctionDef"} -> EnterFunctionDef(v, node)

Visited(node) == [node |-> node, in_init |-> in_init_method, depth |-> Len(stack)]

\* the line of the innermost View/Modal/LayoutView class the frames are
\* inside of, None at module level or inside other classes only
EnclosingDeclaration(frames) ==
    LET declarations == {i \in 1..Len(frames) :
                            frames[i].t = "ClassDef" /\ frames[i].class_type # NoName}
        innermost == CHOOSE i \in declarations : \A j \in declarations : j <= i
    IN  IF declarations = {} THEN None ELSE PyInt(frames[innermost].node.lineno)

\* owner extended by the components appended in this step
Owned(v) ==
    [n \in (DOMAIN owner) \cup
           {v.components[i].node : i \in (Len(components) + 1)..Len(v.components)} |->
        IF n \in DOMAIN owner THEN owner[n] ELSE EnclosingDeclaration(stack)]

\* binder after the assignment of the names among the targets of a statement
Binding(node) ==
    IF node.t # "Assign" THEN binder
    ELSE [n \in (DOMAIN binder) \cup
                {node.targets[i].id :
                    i \in {j \in 1..Len(node.targets) : node.targets[j].t = "Name"}} |->
             IF \E i \in 1..Len(node.targets) :
                    node.targets[i].t = "Name" /\ node.targets[i].id = n
             THEN EnclosingDeclaration(stack) ELSE binder[n]]

\* the traversal context of a visitor
Context(v) ==
    [name |-> v.current_class, kind |-> v.current_class_type,
     line |-> v.current_class_line, components |-> v.class_components,
     in_init |-> v.in_init_method]

\* entered after a handler has taken the visitor to v
Entering(v) ==
    IF Len(v.stack) > Len(stack) THEN Append(entered, Context(Self))
    ELSE IF Len(v.stack) < Len(stack) THEN SubSeq(entered, 1, Len(entered) - 1)
    ELSE entered

\* the statement on the next line and the visitor on reaching it
NextLine(stmt) == Placed(stmt, lineno + 1)
Arrived == [Self EXCEPT !.lineno = lineno + 1]

\* the traversal reaches the next statement, which takes the visitor to v:
\* the body of the innermost open class or function continues with it, or
\* the module does
Visit(node, v, limit) ==
    /\ raised = NoException
    /\ lineno < limit
    /\ Becomes(v)
    /\ owner' = Owned(v)
    /\ binder' = Binding(node)
    /\ entered' = Entering(v)
    /\ last' = Visited(node)
    /\ UNCHANGED <<cacheVars, pureVars>>

\* the body of the innermost open class or function ends; last keeps what
\* the hierarchy of a class was built from
Leave(t, v) ==
    /\ raised = NoException
    /\ Len(stack) > 0
    /\ Top(stack).t = t
    /\ Becomes(v)
    /\ owner' = Owned(v)
    /\ binder' = binder
    /\ entered' = Entering(v)
    /\ last' = [node |-> [t |-> "end", of |-> Top(stack).node,
                          tracking |-> hierarchy_tracking,
                          relationships |-> hierarchy_relationships],
                in_init |-> in_init_method, depth |-> Len(stack)]
    /\ UNCHANGED <<cacheVars, pureVars>>

(***************************************************************************)
(* The statements the traversal is run on                                  *)
(***************************************************************************)
MaxNodes == 4
MaxEdges == 4

LabelA == Keyword("label", Constant(PyStr(<<"A">>)))
\* bogus is in no allow-list
KwButtonA == <<LabelA, Keyword("bogus", Constant(PyInt(1)))>>
\* an f-string label cannot be evaluated
KwButtonB == <<Keyword("style", Ref(<<"discord", "ButtonStyle", "green">>)),
               Keyword("label", JoinedStr)>>
\* label is allowed for buttons and text inputs, not for select menus
KwSelect == <<Keyword("placeholder", Ref(<<"n">>)), LabelA>>
\* emoji is allowed for buttons, not for text inputs
KwTextInput == <<LabelA, Keyword("emoji", Constant(PyStr(<<"x">>))),
                 Keyword("style", Ref(<<"TextStyle", "paragraph">>))>>
\* label is not allowed for thumbnails
KwThumbnail == <<Keyword("url", Constant(PyStr(<<"u">>))), LabelA>>

ButtonA(pos) == Call(pos, Ref(<<"ui", "Button">>), << >>, KwButtonA)
ButtonB(pos) == Call(pos, Ref(<<"Button">>), << >>, KwButtonB)
SelectCall(pos) == Call(pos, Ref(<<"discord", "ui", "Select">>), << >>, KwSelect)
TextInputCall(pos) == Call(pos, Ref(<<"ui", "TextInput">>), << >>, KwTextInput)
ThumbnailCall(pos) == Call(pos, Ref(<<"ui", "Thumbnail">>), << >>, KwThumbnail)
ContainerCall == Call(0, Ref(<<"ui", "Container">>), << >>, << >>)
SectionCall == Call(0, Ref(<<"ui", "Section">>), << >>, << >>)
ActionRowCall == Call(0, Ref(<<"ActionRow">>), << >>, << >>)
ButtonDecorator == Call(1, Ref(<<"ui", "button">>), << >>, KwButtonA)
SelectDecorator == Call(1, Ref(<<"a", "select">>), << >>, KwSelect)

\* receiver.method(arg)
MethodCall(receiver, method, arg) ==
    Expr(Call(0, Ref(<<receiver, method>>), <<arg>>, << >>))

Assigns ==
    { Assign(<<Ref(<<"a">>)>>, ButtonA(0)),
      Assign(<<Ref(<<"a">>), Ref(<<"b">>)>>, ButtonB(0)),
      Assign(<<Ref(<<"self", "x">>)>>, SelectCall(0)),
      Assign(<<Ref(<<"a">>)>>, ContainerCall) }
AnnAssigns ==
    { AnnAssign(Ref(<<"b">>), TextInputCall(0)) }
Exprs ==
    { MethodCall("self", "add_item", ButtonA(1)),
      MethodCall("self", "add_item", Ref(<<"a">>)),
      MethodCall("a", "append_item", Ref(<<"b">>)),
      MethodCall("a", "add_section", Ref(<<"b">>)),
      MethodCall("a", "add_row", ThumbnailCall(1)) }
ClassDefs ==
    { ClassDef("V", <<Ref(<<"ui", "View">>)>>),
      ClassDef("W", <<Ref(<<"LayoutView">>)>>),
      ClassDef("P", <<Ref(<<"commands", "Cog">>)>>) }
FunctionDefs ==
    { FunctionDef("__init__", << >>),
      AsyncFunctionDef("cb", <<ButtonDecorator>>),
      FunctionDef("on_select", <<SelectDecorator>>) }

\* the relationship calls the hierarchy is built from: c, s, r, b are bound
\* to a container, a section, a row and a button, u is bound to nothing
EdgeCalls ==
    { MethodCall("self", "add_item", Ref(<<"c">>)),
      MethodCall("self", "add_item", Ref(<<"b">>)),
      MethodCall("self", "add_item", Ref(<<"u">>)),
      MethodCall("c", "add_section", Ref(<<"s">>)),
      MethodCall("c", "add_item", Ref(<<"b">>)),
      MethodCall("s", "add_row", Ref(<<"r">>)),
      MethodCall("r", "add_item", Ref(<<"b">>)),
      MethodCall("s", "append_item", Ref(<<"c">>)),
      MethodCall("b", "add_item", Ref(<<"r">>)) }

\* class V(ui.LayoutView) with c, s, r, b bound in its body, up to the first
\* line of the body of __init__
HierarchyPrelude ==
    << ClassDef("V", <<Ref(<<"ui", "LayoutView">>)>>),
       Assign(<<Ref(<<"c">>)>>, ContainerCall),
       Assign(<<Ref(<<"s">>)>>, SectionCall),
       Assign(<<Ref(<<"r">>)>>, ActionRowCall),
       Assign(<<Ref(<<"b">>)>>, ButtonA(0)),
       FunctionDef("__init__", << >>) >>

RECURSIVE Run(_, _)
\* the visitor after the statements, each nested in the one before it when
\* that one is a class or a function
Run(v, stmts) ==
    IF Len(stmts) = 0 THEN v
    ELSE Run(Dispatch([v EXCEPT !.lineno = v.lineno + 1],
                      Placed(Head(stmts), v.lineno + 1)),
             Tail(stmts))

(***************************************************************************)
(* Specifications                                                          *)
(***************************************************************************)
Init ==
    /\ Is(NewVisitor)
    /\ last = [node |-> [t |-> "Module"], in_init |-> FALSE, depth |-> 0]
    /\ owner = EmptyDict
    /\ binder = EmptyDict
    /\ entered = << >>
    /\ InitCache
    /\ InitPure

VisitAssign ==
    \E stmt \in Assigns :
        Visit(NextLine(stmt), visit_Assign(Arrived, NextLine(stmt)), MaxNodes)
VisitAnnAssign ==
    \E stmt \in AnnAssigns :
        Visit(NextLine(stmt), visit_AnnAssign(Arrived, NextLine(stmt)), MaxNodes)
VisitExpr ==
    \E stmt \in Exprs :
        Visit(NextLine(stmt), visit_Expr(Arrived, NextLine(stmt)), MaxNodes)
VisitClassDef ==
    \E stmt \in ClassDefs :
        Visit(NextLine(stmt), EnterClassDef(Arrived, NextLine(stmt)), MaxNodes)
VisitFunctionDef ==
    \E stmt \in FunctionDefs :
        Visit(NextLine(stmt), EnterFunctionDef(Arrived, NextLine(stmt)), MaxNodes)
LeaveClass == Leave("ClassDef", LeaveClassDef(Self))
LeaveFunction == Leave("FunctionDef", LeaveFunctionDef(Self))

Next ==
    \/ VisitAssign
    \/ VisitAnnAssign
    \/ VisitExpr
    \/ VisitClassDef
    \/ VisitFunctionDef
    \/ LeaveClass
    \/ LeaveFunction

\* the traversal of one syntax tree by a new visitor
Spec == Init /\ [][Next]_vars

InitHierarchy ==
    /\ Is(Run(NewVisitor, HierarchyPrelude))
    /\ last = [node |-> [t |-> "Module"], in_init |-> FALSE, depth |-> 0]
    /\ owner = EmptyDict
    /\ binder = EmptyDict
    /\ entered = <<Context(NewVisitor), Context(Run(NewVisitor, SubSeq(HierarchyPrelude, 1, 5)))>>
    /\ InitCache
    /\ InitPure

VisitEdgeCall ==
    \E stmt \in EdgeCalls :
        Visit(NextLine(stmt), visit_Expr(Arrived, NextLine(stmt)),
              Len(HierarchyPrelude) + MaxEdges)

NextHierarchy ==
    \/ VisitEdgeCall
    \/ LeaveFunction
    \/ LeaveClass

\* the traversal of the body of __init__ of a LayoutView and the build of
\* its hierarchy
SpecHierarchy == InitHierarchy /\ [][NextHierarchy]_vars

NextCache ==
    \/ \E f \in Files, c \in {"src_a", "src_b"} : CacheGet(f, c)
    \/ \E f \in Files, c \in {"src_a", "src_b"} :
          \E r \in {VisitorResult("src_a"), VisitorResult("src_b")} : CacheSet(f, c, r)
    \/ \E f \in Files : CacheInvalidate(f)
    \/ CacheClear
    \/ CacheGetStats
    \/ Tick

\* calls on one ParseCache, one at a time
SpecCache == Init /\ [][NextCache]_vars

NextParseFile ==
    \/ \E f \in Files : ParseFile(f)
    \/ \E f \in Files, c \in Sources \cup {Unreadable} : Edit(f, c)
    \/ Tick

NextRace ==
    \/ \E t \in Callers, f \in Files, c \in {"src_a", "src_b"} : GetLookup(t, f, c)
    \/ \E t \in Callers : GetCheck(t)
    \/ \E t \in Callers : GetAge(t)
    \/ \E t \in Callers : GetPop(t)
    \/ \E t \in Callers, f \in Files, c \in {"src_a", "src_b"} :
          SetBy(t, f, c, VisitorResult(c))
    \/ \E t \in Callers, f \in Files : InvalidateBy(t, f)
    \/ \E t \in Callers : ClearBy(t)
    \/ Tick

\* threads calling the shared cache with no lock, a thread switch being
\* possible between any two statements of get
SpecRace == Init /\ [][NextRace]_vars

\* calls of parse_file while the files change on disk
SpecParseFile == Init /\ [][NextParseFile]_vars

InitStyle ==
    /\ Is(NewVisitor)
    /\ last = [node |-> [t |-> "Module"], in_init |-> FALSE, depth |-> 0]
    /\ owner = EmptyDict
    /\ binder = EmptyDict
    /\ entered = << >>
    /\ InitCache
    /\ style_arg \in StyleStrings
    /\ style_ret = NotCalled

NextStyle == NormalizeButtonStyle

\* _normalize_button_style applied to one string
SpecStyle == InitStyle /\ [][NextStyle]_vars

(***************************************************************************)
(* The accepted forms of a declaration, with the ways a style and a        *)
(* spacing are written                                                     *)
(***************************************************************************)
MaxForms == 3

\* Button(label='A', style=...) under the given reference
FormButton(pos, path, style) ==
    Call(pos, Ref(path), << >>, <<LabelA, Keyword("style", style)>>)
\* Select(placeholder='A') under the given reference
FormSelect(pos, path) ==
    Call(pos, Ref(path), << >>, <<Keyword("placeholder", Constant(PyStr(<<"A">>)))>>)
FormSeparator(spacing) ==
    Call(0, Ref(<<"ui", "Separator">>), << >>, <<Keyword("spacing", spacing)>>)
\* @path(label='A') / @path(placeholder='A')
FormDecorator(path, arg) ==
    Call(1, Ref(path), << >>, <<Keyword(arg, Constant(PyStr(<<"A">>)))>>)

\* Modal(title='A', custom_id=...) under the given reference
FormModal(path, custom_id) ==
    Call(0, Ref(path), << >>,
         <<Keyword("title", Constant(PyStr(<<"A">>))), Keyword("custom_id", custom_id)>>)
\* MediaGallery(...) with the items as keyword or as first argument
FormGallery(args, keywords) ==
    Call(0, Ref(<<"ui", "MediaGallery">>), args, keywords)
\* [1, 2]
ListOfTwo == List(<<Constant(PyInt(1)), Constant(PyInt(2))>>)

FormClassDefs == { ClassDef("V", <<Ref(<<"ui", "View">>)>>) }
FormAssigns ==
    { Assign(<<Ref(<<"a">>)>>, FormButton(0, <<"discord", "ui", "Button">>,
                                          Constant(PyInt(1)))),
      Assign(<<Ref(<<"a">>)>>, FormButton(0, <<"ui", "Button">>, Ref(<<"n">>))),
      Assign(<<Ref(<<"a">>)>>, FormButton(0, <<"Button">>,
                                          Constant(PyStr(<<"P", "r", "i", "m", "a", "r", "y">>)))),
      Assign(<<Ref(<<"a">>)>>, FormSelect(0, <<"discord", "ui", "Select">>)),
      Assign(<<Ref(<<"a">>)>>, FormSelect(0, <<"ui", "Select">>)),
      Assign(<<Ref(<<"a">>)>>, FormSelect(0, <<"Select">>)),
      Assign(<<Ref(<<"a">>)>>, ActionRowCall),
      Assign(<<Ref(<<"a">>)>>, FormSeparator(Ref(<<"discord", "SeparatorSpacing", "large">>))),
      Assign(<<Ref(<<"a">>)>>, FormSeparator(Constant(PyStr(<<"x">>)))),
      Assign(<<Ref(<<"a">>)>>, FormSeparator(Constant(PyInt(2)))),
      Assign(<<Ref(<<"a">>)>>, FormSeparator(Ref(<<"n">>))),
      Assign(<<Ref(<<"a">>)>>, FormModal(<<"ui", "Modal">>, Constant(PyStr(<<"x">>)))),
      Assign(<<Ref(<<"a">>)>>, FormModal(<<"discord", "ui", "Modal">>,
                                         [t |-> "JoinedStr"])),
      Assign(<<Ref(<<"a">>)>>, FormGallery(<< >>, <<Keyword("items", ListOfTwo)>>)),
      Assign(<<Ref(<<"a">>)>>, FormGallery(<<ListOfTwo>>, << >>)),
      Assign(<<Ref(<<"a">>)>>, FormGallery(<< >>, <<Keyword("items", Ref(<<"n">>))>>)) }
FormExprs ==
    { MethodCall("self", "add_item",
                 FormButton(1, <<"discord", "ui", "Button">>, Constant(PyStr(<<"x">>)))),
      MethodCall("self", "add_item",
                 FormButton(1, <<"ui", "Button">>, Ref(<<"discord", "ButtonStyle", "green">>))),
      MethodCall("self", "add_item", FormButton(1, <<"Button">>, Ref(<<"n">>))),
      MethodCall("self", "add_item", FormSelect(1, <<"ui", "Select">>)) }
FormFunctionDefs ==
    { FunctionDef("__init__", << >>),
      AsyncFunctionDef("cb", <<FormDecorator(<<"ui", "button">>, "label")>>),
      AsyncFunctionDef("cb", <<FormDecorator(<<"discord", "ui", "button">>, "label")>>),
      AsyncFunctionDef("cb", <<FormDecorator(<<"row1", "button">>, "label")>>),
      AsyncFunctionDef("on_select", <<FormDecorator(<<"ui", "select">>, "placeholder")>>),
      AsyncFunctionDef("on_select", <<FormDecorator(<<"row2", "select">>, "placeholder")>>) }

VisitFormAssign ==
    \E stmt \in FormAssigns :
        Visit(NextLine(stmt), visit_Assign(Arrived, NextLine(stmt)), MaxForms)
VisitFormExpr ==
    \E stmt \in FormExprs :
        Visit(NextLine(stmt), visit_Expr(Arrived, NextLine(stmt)), MaxForms)
VisitFormClassDef ==
    \E stmt \in FormClassDefs :
        Visit(NextLine(stmt), EnterClassDef(Arrived, NextLine(stmt)), MaxForms)
VisitFormFunctionDef ==
    \E stmt \in FormFunctionDefs :
        Visit(NextLine(stmt), EnterFunctionDef(Arrived, NextLine(stmt)), MaxForms)

NextForms ==
    \/ VisitFormAssign
    \/ VisitFormExpr
    \/ VisitFormClassDef
    \/ VisitFormFunctionDef
    \/ LeaveClass
    \/ LeaveFunction

\* the traversal of a tree of declarations in each accepted form
SpecForms == Init /\ [][NextForms]_vars

(***************************************************************************)
(* Select menus whose options are written as a list, a name, a conditional *)
(* expression or a list comprehension                                      *)
(***************************************************************************)
MaxOptions == 4

\* [elt for i in range(n)]: the methods read elt only, never the generators
ListCompOver(elt, n) == [t |-> "ListComp", elt |-> elt, generators |-> <<n>>]

\* SelectOption(label='...')
Option(pos, label) ==
    Call(pos, Ref(<<"SelectOption">>), << >>,
         <<Keyword("label", Constant(PyStr(<<label>>)))>>)
ListA == List(<<Option(1, "A")>>)
ListB == List(<<Option(1, "B"), Option(2, "C")>>)
\* SelectOption(label=f'...', value='v', bogus=1): the label cannot be
\* evaluated and bogus is no keyword of an option
Template == Call(1, Ref(<<"SelectOption">>), << >>,
                 <<Keyword("label", JoinedStr),
                   Keyword("value", Constant(PyStr(<<"v">>))),
                   Keyword("bogus", Constant(PyInt(1)))>>)
\* SelectOption(**kw): no keyword of an option is written out
BareTemplate == Call(1, Ref(<<"discord", "SelectOption">>), << >>, << >>)

\* s = Select(options=...)
SelectOf(options) ==
    Assign(<<Ref(<<"s">>)>>,
           Call(0, Ref(<<"Select">>), << >>, <<Keyword("options", options)>>))

OptionAssigns ==
    { Assign(<<Ref(<<"a">>)>>, ListA),
      Assign(<<Ref(<<"a">>)>>, List(<< >>)),
      Assign(<<Ref(<<"b">>)>>, ListB),
      Assign(<<Ref(<<"b">>)>>, Ref(<<"a">>)),
      Assign(<<Ref(<<"c">>)>>, Ref(<<"b">>)),
      SelectOf(Ref(<<"a">>)),
      SelectOf(Ref(<<"b">>)),
      SelectOf(Ref(<<"c">>)),
      SelectOf(IfExp(Ref(<<"a">>), Ref(<<"b">>))),
      SelectOf(IfExp(IfExp(Ref(<<"a">>), Ref(<<"c">>)), ListB)),
      SelectOf(ListCompOver(Template, 1)),
      SelectOf(ListCompOver(Template, 5)),
      SelectOf(ListCompOver(BareTemplate, 5)) }
OptionClassDefs ==
    { ClassDef("V", <<Ref(<<"ui", "View">>)>>),
      ClassDef("W", <<Ref(<<"ui", "View">>)>>) }

VisitOptionAssign ==
    \E stmt \in OptionAssigns :
        Visit(NextLine(stmt), visit_Assign(Arrived, NextLine(stmt)), MaxOptions)
VisitOptionClassDef ==
    \E stmt \in OptionClassDefs :
        Visit(NextLine(stmt), EnterClassDef(Arrived, NextLine(stmt)), MaxOptions)

NextOptions ==
    \/ VisitOptionAssign
    \/ VisitOptionClassDef
    \/ LeaveClass

\* the traversal of declarations that bind names and build select menus
SpecOptions == Init /\ [][NextOptions]_vars

(***************************************************************************)
(* Properties                                                              *)
(***************************************************************************)
Last(seq) == seq[Len(seq)]
Occurrences(seq, x) == Cardinality({i \in 1..Len(seq) : seq[i] = x})

\* C1: no two records of self.components come from the same call
\* expression, whichever paths the traversal reached the call along.
C1_OneRecordPerCall ==
    \A i, j \in 1..Len(components) :
        i # j => components[i].node # components[j].node

\* an assignment with two targets has just been visited: its value was
\* reached once per target and once more as a call node, and has one record
C1_Witness ==
    /\ last.node.t = "Assign"
    /\ Len(last.node.targets) = 2
    /\ Occurrences([i \in 1..Len(components) |-> components[i].node],
                   id(last.node.value)) = 1

\* a step that is a call of get / of parse_file
IsCall(op) == calls' = calls + 1 /\ ret'.op = op

\* C2: get(f, c) returns the stored result and counts a hit iff f has an
\* entry whose hash is that of c and whose age is at most max_age;
\* otherwise it returns None, counts one miss and leaves no entry for f,
\* the entries of the other files being untouched.
C2_GetContract ==
    [][IsCall("get") =>
        LET f == ret'.file
            valid == /\ f \in DOMAIN cache
                     /\ cache[f].content_hash = _hash_content(ret'.content)
                     /\ now - cache[f].timestamp <= max_age
        IN  IF valid
            THEN /\ ret'.value = cache[f].result
                 /\ hits' = hits + 1
                 /\ misses' = misses
                 /\ cache' = cache
            ELSE /\ ret'.value = None
                 /\ hits' = hits
                 /\ misses' = misses + 1
                 /\ f \notin DOMAIN cache'
                 /\ \A g \in Files \ {f} :
                        /\ g \in DOMAIN cache' <=> g \in DOMAIN cache
                        /\ g \in DOMAIN cache => cache'[g] = cache[g]]_vars

\* get has returned the result of an entry that is exactly max_age old
C2_Witness ==
    /\ ret.op = "get"
    /\ ret.value # None
    /\ hits > 0
    /\ ret.file \in DOMAIN cache
    /\ now - cache[ret.file].timestamp = max_age

\* C3: what parse_file returns is what it returns without the cache on the
\* file's current content; a result taken from the cache is that of an entry
\* for the same path with the content's hash that is at most max_age old.
C3_CacheTransparent ==
    [][IsCall("parse_file") =>
        LET f == ret'.file
        IN  /\ ret'.value = parse_file(f, FALSE).value
            /\ ret'.cached =>
                  /\ f \in DOMAIN cache
                  /\ cache[f].content_hash = _hash_content(disk[f])
                  /\ now - cache[f].timestamp <= max_age
                  /\ cache[f].result = ret'.value]_vars

\* parse_file has answered from the cache, after the other text had been
\* parsed and after time had passed
C3_Witness ==
    /\ ret.op = "parse_file"
    /\ ret.cached
    /\ misses >= 2
    /\ now > 0

\* reading, parsing or traversing the file at this path fails
Fails(f) ==
    \/ disk[f] = Unreadable
    \/ AstParseRaises(disk[f])
    \/ VisitRaises(disk[f])

\* C4: when reading, parsing or traversing fails, parse_file returns (it
\* does not raise) a result with no components, no views and one error of
\* severity 'error', and the call stores nothing in the cache.
C4_ErrorResult ==
    [][(IsCall("parse_file") /\ Fails(ret'.file)) =>
        /\ ~ret'.raised
        /\ ret'.value.components = << >>
        /\ ret'.value.views = << >>
        /\ Len(ret'.value.errors) = 1
        /\ ret'.value.errors[1].severity = "error"
        /\ \A g \in DOMAIN cache' : g \in DOMAIN cache /\ cache'[g] = cache[g]]_vars

\* a failure of the traversal has been turned into an error result, with
\* the cache holding an entry
C4_Witness ==
    /\ ret.op = "parse_file"
    /\ ret.content = "src_cyclic"
    /\ ~ret.raised
    /\ Len(ret.value.errors) = 1
    /\ DOMAIN cache # {}

\* the hierarchy of a declaration has just been built
HierarchyBuilt ==
    /\ last.node.t = "end"
    /\ last.node.of.t = "ClassDef"
    /\ raised = NoException
    /\ ClassType(last.node.of.bases) # NoName

\* the relationships the build started from whose parent is self
SelfEdges == SelectSeq(last.node.relationships, LAMBDA rel : rel.parent = "self")
\* those of them whose child names a tracked node
TrackedSelfEdges ==
    SelectSeq(SelfEdges, LAMBDA rel : rel.child \in DOMAIN last.node.tracking)

\* the roots are the nodes tracked under the children of the edges, in order
RootsAre(edges) ==
    LET roots == Last(views).children
    IN  /\ Len(roots) = Len(edges)
        /\ \A i \in 1..Len(edges) :
              /\ edges[i].child \in DOMAIN last.node.tracking
              /\ roots[i].nodeType = last.node.tracking[edges[i].child].nodeType
              /\ roots[i].line = last.node.tracking[edges[i].child].line

\* C5 as stated: the roots of a hierarchy are the edges whose parent is
\* self, one root per edge in recording order, none left out.
C5_Original == HierarchyBuilt => RootsAre(SelfEdges)

\* C5 as amended: the roots of a hierarchy are the edges whose parent is
\* self and whose child names a tracked node, one root per such edge in
\* recording order; an edge of another parent gives no root, and neither
\* does an edge of self whose child is not tracked.
C5_RootsAreTrackedSelfEdges == HierarchyBuilt => RootsAre(TrackedSelfEdges)

\* a hierarchy built from two tracked edges of self, an untracked one and an
\* edge of a container
C5_Witness ==
    /\ HierarchyBuilt
    /\ Len(TrackedSelfEdges) = 2
    /\ Len(SelfEdges) = 3
    /\ Len(last.node.relationships) = 4
    /\ Len(Last(views).children) = 2

\* the relationships the build started from whose parent is this name and
\* whose child names a tracked node
TrackedEdgesOf(name) ==
    SelectSeq(last.node.relationships,
              LAMBDA rel : rel.parent = name /\ rel.child \in DOMAIN last.node.tracking)

\* the name a built node was tracked under (each name is bound on a line of
\* its own)
NameOf(node) ==
    CHOOSE name \in DOMAIN last.node.tracking :
        last.node.tracking[name].line = node.line

RECURSIVE ChildrenFollowEdges(_)
\* below this node, every container, section and action row has a children
\* list holding the tracked children of its edges, in recording order
ChildrenFollowEdges(node) ==
    LET edges == TrackedEdgesOf(NameOf(node))
    IN  /\ node.nodeType \in {"container", "section", "actionrow"} =>
              /\ "children" \in DOMAIN node
              /\ Len(node.children) = Len(edges)
              /\ \A i \in 1..Len(edges) :
                    /\ node.children[i].nodeType =
                           last.node.tracking[edges[i].child].nodeType
                    /\ node.children[i].line = last.node.tracking[edges[i].child].line
        /\ "children" \in DOMAIN node =>
              \A i \in 1..Len(node.children) : ChildrenFollowEdges(node.children[i])

\* the edges of the example: the container c added to self, holding the
\* section s, holding the action row r, holding the button b
ExampleEdges ==
    /\ Len(last.node.relationships) = 4
    /\ {<<last.node.relationships[i].parent, last.node.relationships[i].child>> :
            i \in 1..4} = {<<"self", "c">>, <<"c", "s">>, <<"s", "r">>, <<"r", "b">>}

ExampleTree ==
    LET roots == Last(views).children
    IN  /\ Len(roots) = 1
        /\ roots[1].nodeType = "container"
        /\ Len(roots[1].children) = 1
        /\ roots[1].children[1].nodeType = "section"
        /\ Len(roots[1].children[1].children) = 1
        /\ roots[1].children[1].children[1].nodeType = "actionrow"
        /\ Len(roots[1].children[1].children[1].children) = 1
        /\ roots[1].children[1].children[1].children[1].nodeType = "item"
        /\ roots[1].children[1].children[1].children[1].data.type = "button"

\* C6: in a built hierarchy the children of every container, section and
\* action row are the tracked children of the edges whose parent is that
\* node, in recording order, and such a node always has a children list;
\* container > section > row > button, the container added to self, is
\* built as one root container with that chain below it.
C6_ChildrenFollowEdges ==
    HierarchyBuilt =>
        /\ \A i \in 1..Len(Last(views).children) :
              ChildrenFollowEdges(Last(views).children[i])
        /\ ExampleEdges => ExampleTree

\* the example has been built, its edges recorded from the leaves upwards
C6_Witness ==
    /\ HierarchyBuilt
    /\ ExampleEdges
    /\ last.node.relationships[1].parent = "r"
    /\ Len(Last(views).children) = 1

\* this step visits a statement that is a relationship call
VisitsRelationshipCall ==
    /\ lineno' = lineno + 1
    /\ last'.node.t = "Expr"
    /\ last'.node.value.func.path[2] \in
           {"add_item", "append_item", "add_section", "add_row"}

\* the edge of the call of the statement visited in this step
EdgeOf(call) ==
    [parent |-> call.func.path[1],
     child |-> IF call.args[1].t = "Name" THEN call.args[1].id
               ELSE InlineKey(call.args[1]),
     method |-> call.func.path[2],
     line |-> call.lineno]

RecordsOneEdge ==
    hierarchy_relationships' = Append(hierarchy_relationships, EdgeOf(last'.node.value))

\* C7: every relationship call in the body of a declaration, its receiver a
\* plain name and its argument a name or an inline call, records one edge
\* {parent = receiver name, child}, wherever in the body it occurs: at class
\* level, inside __init__ or inside another method.
C7_EveryCallRecordsAnEdge ==
    [][(VisitsRelationshipCall /\ current_class # NoName) => RecordsOneEdge]_vars

\* how often the component of this call is in the list
TimesIn(list, node) == Cardinality({i \in 1..Len(list) : list[i].node = node})

\* C8: a component extracted inside a View/Modal/LayoutView class is in the
\* components of the innermost such class around it, once, and of no other;
\* a component extracted at module level is in no declaration's components;
\* every component is once in the top-level components.
C8_OneOwner ==
    raised = NoException =>
        \A i \in 1..Len(components) :
            LET node == components[i].node
            IN  /\ TimesIn(components, node) = 1
                /\ \A k \in 1..Len(views) :
                      TimesIn(views[k].components, node) =
                          IF views[k].line = owner[node] THEN 1 ELSE 0
                /\ (stack = << >> /\ owner[node] # None) =>
                      \E k \in 1..Len(views) : views[k].line = owner[node]

\* a class nested in another has been traversed, each with one component of
\* its own
C8_Witness ==
    /\ stack = << >>
    /\ raised = NoException
    /\ Len(views) = 2
    /\ views[1].line.n > views[2].line.n
    /\ Len(views[1].components) = 1
    /\ Len(views[2].components) = 1
    /\ Len(components) = 2

\* the keyword names the specification lists for each kind
AllowList(type) ==
    CASE type = "button" ->
            {"label", "style", "custom_id", "disabled", "emoji", "url", "row"}
      [] type = "select_menu" ->
            {"custom_id", "placeholder", "min_values", "max_values", "disabled",
             "row", "options"}
      [] type = "text_input" ->
            {"label", "style", "custom_id", "placeholder", "default", "required",
             "min_length", "max_length", "row"}
      [] type = "thumbnail" -> {"url", "alt", "width", "height"}

\* the component extracted from the call this statement assigns
ComponentOf(call) ==
    components[CHOOSE i \in 1..Len(components) : components[i].node = id(call)]

\* C9: the keys of a component's properties, callback apart, are in the
\* allow-list of its kind; a keyword outside the allow-list records no
\* error and takes away neither the component nor its other properties.
C9_AllowListed ==
    /\ \A i \in 1..Len(components) :
          (DOMAIN components[i].properties) \ {"callback"}
              \subseteq AllowList(components[i].type)
    /\ errors = << >>
    /\ (last.node.t = "Assign" /\ last.node.targets[1].t = "Name"
           /\ last.node.value = AtLine(ButtonA(0), last.node.lineno)) =>
          /\ \E i \in 1..Len(components) : components[i].node = id(last.node.value)
          /\ ComponentOf(last.node.value).properties = [label |-> PyStr(<<"A">>)]

\* a button built with label='A', bogus=1 has been extracted with its label
\* only, next to a text input built with an emoji
C9_Witness ==
    /\ last.node.t = "Assign"
    /\ last.node.value = AtLine(ButtonA(0), last.node.lineno)
    /\ \E i \in 1..Len(components) :
          /\ components[i].node = id(last.node.value)
          /\ DOMAIN components[i].properties = {"label"}
    /\ \E i \in 1..Len(components) :
          /\ components[i].type = "text_input"
          /\ "emoji" \notin DOMAIN components[i].properties

\* the table of the claim, on the final token of the reference
StyleOfToken(token) ==
    IF token \in {<<"p", "r", "i", "m", "a", "r", "y">>, <<"b", "l", "u", "r", "p", "l", "e">>} THEN <<"p", "r", "i", "m", "a", "r", "y">>
    ELSE IF token \in {<<"s", "e", "c", "o", "n", "d", "a", "r", "y">>, <<"g", "r", "e", "y">>, <<"g", "r", "a", "y">>}
    THEN <<"s", "e", "c", "o", "n", "d", "a", "r", "y">>
    ELSE IF token \in {<<"s", "u", "c", "c", "e", "s", "s">>, <<"g", "r", "e", "e", "n">>} THEN <<"s", "u", "c", "c", "e", "s", "s">>
    ELSE IF token \in {<<"d", "a", "n", "g", "e", "r">>, <<"r", "e", "d">>} THEN <<"d", "a", "n", "g", "e", "r">>
    ELSE IF token = <<"l", "i", "n", "k">> THEN <<"l", "i", "n", "k">>
    ELSE <<"s", "e", "c", "o", "n", "d", "a", "r", "y">>

\* C10: the normalized button style is given by the final token of the
\* reference alone: the accepted tokens map as listed, and every other
\* token maps to secondary, also one that begins with or contains an
\* accepted token.
C10_FunctionOfFinalToken ==
    style_ret # NotCalled => style_ret = StyleOfToken(Lower(LastToken(style_arg)))

\* the closed enums of the specification
ButtonStyles ==
    {<<"p", "r", "i", "m", "a", "r", "y">>, <<"s", "e", "c", "o", "n", "d", "a", "r", "y">>,
     <<"s", "u", "c", "c", "e", "s", "s">>, <<"d", "a", "n", "g", "e", "r">>,
     <<"l", "i", "n", "k">>}
Spacings ==
    {<<"s", "m", "a", "l", "l">>, <<"m", "e", "d", "i", "u", "m">>, <<"l", "a", "r", "g", "e">>}

\* C11: the style stored on a button is one of primary, secondary, success,
\* danger, link and the spacing stored on a separator is one of small,
\* medium, large, whatever expression was written for the argument: an enum
\* reference, a bare name, a string or a numeric constant.
C11_ClosedEnums ==
    \A i \in 1..Len(components) :
        /\ (components[i].type = "button" /\ "style" \in DOMAIN components[i].properties) =>
              /\ components[i].properties.style.k = "str"
              /\ components[i].properties.style.s \in ButtonStyles
        /\ (components[i].type = "separator"
                /\ "spacing" \in DOMAIN components[i].properties) =>
              /\ components[i].properties.spacing.k = "str"
              /\ components[i].properties.spacing.s \in Spacings

\* a select menu built with an options argument has just been assigned
SelectAssigned ==
    /\ last.node.t = "Assign"
    /\ last.node.value.t = "Call"
    /\ \E i \in 1..Len(last.node.value.keywords) :
          last.node.value.keywords[i].arg = "options"

\* the expression written for its options argument
OptionsArgument ==
    last.node.value.keywords[CHOOSE i \in 1..Len(last.node.value.keywords) :
                                last.node.value.keywords[i].arg = "options"].value

\* the options property of its component, None when it has none
StoredOptions ==
    IF "options" \in DOMAIN ComponentOf(last.node.value).properties
    THEN ComponentOf(last.node.value).properties.options
    ELSE None

RECURSIVE TernaryRule(_, _)
\* at this conditional expression and at every one nested in its branches,
\* the options are those of the true branch when it has any, else those of
\* the false branch
TernaryRule(bindings, e) ==
    e.t = "IfExp" =>
        /\ _extract_select_options(bindings, e) =
              IF /\ _extract_select_options(bindings, e.body) # None
                 /\ Len(_extract_select_options(bindings, e.body).items) > 0
              THEN _extract_select_options(bindings, e.body)
              ELSE _extract_select_options(bindings, e.orelse)
        /\ TernaryRule(bindings, e.body)
        /\ TernaryRule(bindings, e.orelse)

\* C12: a conditional options expression resolves to the options of its
\* true branch when that branch resolves to at least one option, to those
\* of its false branch only when the true branch resolves to none, at every
\* level of nesting; when neither resolves the component has no options.
C12_TrueBranchFirst ==
    (SelectAssigned /\ OptionsArgument.t = "IfExp") =>
        /\ TernaryRule(variables, OptionsArgument)
        /\ StoredOptions = _extract_select_options(variables, OptionsArgument)
        /\ StoredOptions # None => Len(StoredOptions.items) > 0
        /\ (/\ _extract_select_options(variables, OptionsArgument.body) = None
            /\ _extract_select_options(variables, OptionsArgument.orelse) = None) =>
               "options" \notin DOMAIN ComponentOf(last.node.value).properties

\* (a if .. else c) if .. else [B, C] has been resolved with a bound to an
\* empty list: the inner conditional resolves to nothing and the menu has
\* the two options of the outer false branch
C12_Witness ==
    /\ SelectAssigned
    /\ OptionsArgument.t = "IfExp"
    /\ OptionsArgument.body.t = "IfExp"
    /\ "a" \in DOMAIN variables
    /\ variables["a"] = List(<< >>)
    /\ StoredOptions # None
    /\ Len(StoredOptions.items) = 2

RECURSIVE EndOfChain(_, _, _)
\* the expression at the end of the chain of bound names that starts at
\* this expression; depth bounds the length of the chain followed
EndOfChain(bindings, node, depth) ==
    IF node.t = "Name" /\ node.id \in DOMAIN bindings /\ depth > 0
    THEN EndOfChain(bindings, bindings[node.id], depth - 1)
    ELSE node

\* the option constructors written in a list
Constructors(node) == SelectSeq(node.elts, LAMBDA e : e.t = "Call")

\* C13: when the options argument is a name of the binding table, the
\* options are those of the expression at the end of the chain of bindings
\* that starts at the name: a name bound to a list of n option constructors
\* gives n options, and so does a name bound to a name bound to that list.
C13_AliasChain ==
    (SelectAssigned /\ OptionsArgument.t = "Name"
        /\ OptionsArgument.id \in DOMAIN variables) =>
        LET end == EndOfChain(variables, OptionsArgument, Cardinality(DOMAIN variables))
        IN  (end.t = "List" /\ Len(Constructors(end)) > 0) =>
                /\ StoredOptions # None
                /\ Len(StoredOptions.items) = Len(Constructors(end))

\* the identifiers of a reference: x.y.z or z
PathOf(func) == IF func.t = "Name" THEN <<func.id>> ELSE func.path

\* the keyword names the specification lists for an option
OptionAllowList == {"label", "value", "description", "emoji", "default"}

\* the allow-listed keywords written in the template
TemplateKeywords(call) ==
    SelectSeq(call.keywords, LAMBDA keyword : keyword.arg \in OptionAllowList)

Dynamic == PyStr(<<"<", "d", "y", "n", "a", "m", "i", "c", ">">>)

\* the options are one option that has the allow-listed keywords of the
\* template: a constant as written, <dynamic> for what cannot be evaluated
OneRepresentative(call) ==
    /\ StoredOptions # None
    /\ Len(StoredOptions.items) = 1
    /\ DOMAIN StoredOptions.items[1] =
          {TemplateKeywords(call)[i].arg : i \in 1..Len(TemplateKeywords(call))}
    /\ \A i \in 1..Len(TemplateKeywords(call)) :
          LET keyword == TemplateKeywords(call)[i]
              stored == StoredOptions.items[1][keyword.arg]
          IN  /\ stored # None
              /\ keyword.value.t \notin {"Constant", "Attribute", "Name"} =>
                    stored = Dynamic
              /\ (keyword.value.t = "Constant" /\ keyword.value.value # None) =>
                    stored = keyword.value.value

\* a select menu whose options are a list comprehension over an option
\* constructor has just been assigned
ComprehensionAssigned ==
    /\ SelectAssigned
    /\ OptionsArgument.t = "ListComp"
    /\ OptionsArgument.elt.t = "Call"
    /\ Last(PathOf(OptionsArgument.elt.func)) = "SelectOption"

\* C14 as stated: a list comprehension over an option constructor resolves
\* to exactly one option, whatever the template and the number of
\* iterations.
C14_Original == ComprehensionAssigned => OneRepresentative(OptionsArgument.elt)

\* C14 as amended: a list comprehension over an option constructor whose
\* template has at least one allow-listed keyword resolves to exactly one
\* option, which has those keywords, whatever the number of iterations; a
\* keyword whose value cannot be evaluated is in it as <dynamic>, never as
\* None and never left out.  A template with no allow-listed keyword
\* resolves to nothing and the menu has no options.
C14_OneRepresentativeOption ==
    ComprehensionAssigned =>
        IF Len(TemplateKeywords(OptionsArgument.elt)) > 0
        THEN OneRepresentative(OptionsArgument.elt)
        ELSE StoredOptions = None

\* [SelectOption(label=f'..', value='v', bogus=1) for i in range(5)] has
\* been resolved to one option with a dynamic label and the value 'v'
C14_Witness ==
    /\ ComprehensionAssigned
    /\ OptionsArgument.generators = <<5>>
    /\ StoredOptions # None
    /\ StoredOptions.items = <<[label |-> Dynamic, value |-> PyStr(<<"v">>)]>>

\* the kind a constructor reference stands for: x.ui.Name, ui.Name or Name
ConstructorKind(path) ==
    IF path \in {<<"discord", "ui", "Button">>, <<"ui", "Button">>, <<"Button">>}
    THEN "button"
    ELSE IF path \in {<<"discord", "ui", "Select">>, <<"ui", "Select">>, <<"Select">>}
    THEN "select_menu"
    ELSE "none"

\* the kind a decorator reference stands for: x.ui.name, or name on any
\* identifier
DecoratorKind(path) ==
    IF Len(path) < 2 \/ (Len(path) > 2 /\ path[Len(path) - 1] # "ui") THEN "none"
    ELSE IF Last(path) = "button" THEN "button"
    ELSE IF Last(path) = "select" THEN "select_menu"
    ELSE "none"

\* the constructor or decorator call a statement declares a component with
\* inside a View class, Absent when it declares none: a class variable, the
\* inline argument of self.add_item in __init__, or a decorated function
DeclaredCall(node) ==
    IF current_class_type # "View" THEN Absent
    ELSE IF /\ node.t = "Assign"
            /\ Len(node.targets) = 1
            /\ node.targets[1].t = "Name"
            /\ node.value.t = "Call"
            /\ ConstructorKind(PathOf(node.value.func)) # "none"
    THEN node.value
    ELSE IF /\ node.t = "Expr"
            /\ in_init_method
            /\ PathOf(node.value.func) = <<"self", "add_item">>
            /\ Len(node.value.args) = 1
            /\ node.value.args[1].t = "Call"
            /\ ConstructorKind(PathOf(node.value.args[1].func)) # "none"
    THEN node.value.args[1]
    ELSE IF /\ node.t \in {"FunctionDef", "AsyncFunctionDef"}
            /\ Len(node.decorator_list) = 1
            /\ DecoratorKind(PathOf(node.decorator_list[1].func)) # "none"
    THEN node.decorator_list[1]
    ELSE Absent

\* the kind of the declared call
DeclaredKind(node, call) ==
    IF node.t \in {"FunctionDef", "AsyncFunctionDef"}
    THEN DecoratorKind(PathOf(call.func))
    ELSE ConstructorKind(PathOf(call.func))

\* one component of this kind is appended, with the label of the call
AppendsOne(kind, call) ==
    /\ Len(components') = Len(components) + 1
    /\ SubSeq(components', 1, Len(components)) = components
    /\ Last(components').type = kind
    /\ \A i \in 1..Len(call.keywords) :
          (kind = "button" /\ call.keywords[i].arg = "label"
              /\ call.keywords[i].value.t = "Constant") =>
             /\ "label" \in DOMAIN Last(components').properties
             /\ Last(components').properties.label = call.keywords[i].value.value

C16_CallbackIffDecorator ==
    [][(lineno' = lineno + 1) =>
        \A i \in (Len(components) + 1)..Len(components') :
            IF last'.node.t \in {"FunctionDef", "AsyncFunctionDef"}
            THEN /\ "callback" \in DOMAIN components'[i].properties
                 /\ components'[i].properties.callback = PyStr(Chars(last'.node.name))
            ELSE "callback" \notin DOMAIN components'[i].properties]_vars

\* an expression whose value is not determined statically: neither a
\* constant, an attribute chain nor a bare name
Unevaluable(e) == e.t \notin {"Constant", "Attribute", "Name"}

\* this step assigns a component call one of whose allow-listed arguments
\* is unevaluable, and the component is extracted
ExtractsUnevaluable ==
    /\ lineno' = lineno + 1
    /\ last'.node.t = "Assign"
    /\ last'.node.value.t = "Call"
    /\ Len(components') = Len(components) + 1
    /\ \E i \in 1..Len(last'.node.value.keywords) :
          /\ last'.node.value.keywords[i].arg \in AllowList(Last(components').type)
          /\ Unevaluable(last'.node.value.keywords[i].value)

\* C17: when the value of an allow-listed argument cannot be determined
\* statically, the property is left out, the other arguments are still
\* extracted, and a warning of severity 'warning' with the line of the
\* statement is appended to the errors.
C17_WarningRecorded ==
    [][ExtractsUnevaluable =>
        /\ \A i \in 1..Len(last'.node.value.keywords) :
              Unevaluable(last'.node.value.keywords[i].value) =>
                 last'.node.value.keywords[i].arg
                     \notin DOMAIN Last(components').properties
        /\ Len(errors') = Len(errors) + 1
        /\ Last(errors').severity = "warning"
        /\ Last(errors').line = last'.node.lineno]_vars

\* the bindings made in the body of the declaration the traversal is in
\* (at module level: those made at module level)
LocalBindings ==
    [n \in {m \in DOMAIN variables :
                m \in DOMAIN binder /\ binder[m] = EnclosingDeclaration(stack)} |->
        variables[n]]

\* C18: the options of a select menu are resolved with the bindings of the
\* declaration it is built in and no others: a name assigned in another
\* class body, or at module level, resolves nothing inside a declaration,
\* whatever the order of the declarations.
C18_ScopeLocalBindings ==
    SelectAssigned =>
        StoredOptions = _extract_select_options(LocalBindings, OptionsArgument)

\* C19: set stores the entry with the time of the call; a get made later
\* than max_age after that time returns None, counts a miss and removes the
\* entry; a get that returns the result leaves the entry and its timestamp
\* as they are, so that hits do not put off the expiry.
C19_HitsDoNotRefresh ==
    [][/\ IsCall("set") =>
             /\ ret'.file \in DOMAIN cache'
             /\ cache'[ret'.file].timestamp = now
       /\ (IsCall("get") /\ ret'.file \in DOMAIN cache) =>
             /\ now > cache[ret'.file].timestamp + max_age =>
                   /\ ret'.value = None
                   /\ ret'.file \notin DOMAIN cache'
                   /\ misses' = misses + 1
                   /\ hits' = hits
             /\ ret'.value # None =>
                   /\ ret'.file \in DOMAIN cache'
                   /\ cache'[ret'.file] = cache[ret'.file]
                   /\ now <= cache[ret'.file].timestamp + max_age]_vars

\* after a set and a get that returned the result, a get made later than
\* max_age after the start has returned None and has left no entry
C19_Witness ==
    /\ calls = 3
    /\ hits = 1
    /\ misses = 1
    /\ now > max_age
    /\ ret.op = "get"
    /\ ret.value = None
    /\ cache = EmptyDict

\* two calls of get in a row with the same path and the same content
SecondGet ==
    /\ ret.op = "get"
    /\ IsCall("get")
    /\ ret'.file = ret.file
    /\ ret'.content = ret.content

\* C20 as stated: the second of two calls of get with the same path and
\* content returns a result and counts a hit.
C20_Original ==
    [][SecondGet => (ret'.value # None /\ hits' = hits + 1)]_vars

\* C20: when the first of two calls of get with the same path and content
\* returned the stored result, the second returns the same result and counts
\* one more hit, unless the entry has become older than max_age in between;
\* when the first call returned None, so does the second, and it counts one
\* more miss: get stores nothing.
C20_SecondGetHitsStoredEntry ==
    [][SecondGet =>
        IF /\ ret.value # None
           /\ ret.file \in DOMAIN cache
           /\ now - cache[ret.file].timestamp <= max_age
        THEN /\ ret'.value = ret.value
             /\ hits' = hits + 1
             /\ misses' = misses
        ELSE /\ ret'.value = None
             /\ hits' = hits
             /\ misses' = misses + 1]_vars

\* after a set, two calls of get have both returned the stored result
C20_Witness ==
    /\ calls = 3
    /\ hits = 2
    /\ misses = 0
    /\ ret.op = "get"
    /\ ret.value # None
    /\ ret.file \in DOMAIN cache
    /\ cache[ret.file].content_hash = _hash_content(ret.content)

\* C21: set(f, c, r) leaves for f the entry with the hash of c, the result r
\* and the time of the call, whatever entry f had before; the entries of the
\* other files and both counters are as before.
C21_SetStoresUnconditionally ==
    [][IsCall("set") =>
        LET f == ret'.file
        IN  /\ DOMAIN cache' = (DOMAIN cache) \cup {f}
            /\ cache'[f] = CacheEntry(_hash_content(ret'.content), ret'.result, now)
            /\ \A g \in (DOMAIN cache) \ {f} : cache'[g] = cache[g]
            /\ hits' = hits
            /\ misses' = misses]_vars

\* set has replaced, after time has passed, the entry that an earlier set
\* had stored and a get had returned
C21_Witness ==
    /\ calls = 3
    /\ hits = 1
    /\ ret.op = "set"
    /\ DOMAIN cache = {ret.file}
    /\ now > 0
    /\ cache[ret.file].timestamp = now
    /\ cache[ret.file].content_hash = _hash_content(ret.content)

\* C22: hits + misses counts the calls of get since construction or the
\* last clear: both counters start at zero, each get adds one to exactly
\* one of them, set, invalidate and get_stats change neither, invalidate
\* removes the named entry only, clear removes every entry and zeroes both
\* counters, and get_stats reports the number of files that have an entry.
C22_CountersCountGets ==
    /\ hits + misses = 0
    /\ [][/\ IsCall("get") =>
               \/ hits' = hits + 1 /\ misses' = misses
               \/ hits' = hits /\ misses' = misses + 1
          /\ (IsCall("set") \/ IsCall("invalidate") \/ IsCall("get_stats")) =>
               /\ hits' = hits
               /\ misses' = misses
          /\ IsCall("invalidate") =>
               /\ DOMAIN cache' = (DOMAIN cache) \ {ret'.file}
               /\ \A g \in DOMAIN cache' : cache'[g] = cache[g]
          /\ IsCall("clear") =>
               /\ DOMAIN cache' = {}
               /\ hits' = 0
               /\ misses' = 0
          /\ IsCall("get_stats") =>
               /\ cache' = cache
               /\ ret'.value.cached_files = Cardinality({f \in Files : f \in DOMAIN cache})
               /\ ret'.value.total_requests = hits + misses]_vars

\* get_stats has reported one call of get, a hit, and one entry
C22_Witness ==
    /\ ret.op = "get_stats"
    /\ ret.value.hits = 1
    /\ ret.value.misses = 0
    /\ ret.value.total_requests = 1
    /\ ret.value.hit_rate_percent = 10000
    /\ ret.value.cached_files = 1

\* C23: with no lock around the cache, a call of get ends in one of three
\* ways: it returns None, it returns the result of the entry it looked up,
\* or its pop raises KeyError; and it raises only when another thread has
\* removed the file's entry (by invalidate, clear or an evicting get) after
\* this call looked it up, so that a get whose statements run with no other
\* thread in between always returns.
C23_RaisesOnlyWhenInterleaved ==
    \A t \in Callers :
        /\ callers[t].pc = "KeyError" =>
              /\ callers[t].entry # None
              /\ callers[t].removed
        /\ callers[t].pc = "returned" =>
              \/ callers[t].value = None
              \/ callers[t].value = callers[t].entry.result
        /\ (callers[t].pc \in {"pop_changed", "pop_expired"} /\ ~callers[t].removed) =>
              ~PopRaises(cache, callers[t].file_path)

\* a get has failed with KeyError: the entry it was about to evict had
\* been removed by the other thread
C23_Witness ==
    \E t \in Callers :
        /\ callers[t].pc = "KeyError"
        /\ callers[t].removed
        /\ \A u \in Callers \ {t} : Free(u)

\* a step that visits the assignment of a call
AssignsCall == lineno' = lineno + 1 /\ last'.node.t = "Assign" /\ last'.node.value.t = "Call"

\* C24: the assignment of a call matched as the Modal constructor appends
\* one component of kind modal whose properties are those of the keywords
\* title and custom_id that evaluate.
C24_ModalExtracted ==
    [][(AssignsCall /\ _is_modal_call(last'.node.value)) =>
        /\ Len(components') = Len(components) + 1
        /\ Last(components').type = "modal"
        /\ Last(components').properties =
               ExtractKeywords(last'.node.value.keywords, {"title", "custom_id"},
                               "none", EmptyDict)]_vars

\* the value of the items of a media gallery call: the keyword, else the
\* first argument, Absent when neither is given
ItemsArgument(call) ==
    IF \E i \in 1..Len(call.keywords) : call.keywords[i].arg = "items"
    THEN call.keywords[CHOOSE i \in 1..Len(call.keywords) : call.keywords[i].arg = "items"].value
    ELSE IF Len(call.args) > 0 THEN call.args[1]
    ELSE Absent

\* the elements of a list literal as Python values
Literal(list) == PyList([i \in 1..Len(list.elts) |-> list.elts[i].value])

\* C25: the assignment of a media gallery call whose items are a list
\* literal appends a media_gallery component that holds the list under
\* items and its length under item_count.
C25_ItemsStoredWithCount ==
    [][(/\ AssignsCall
        /\ _is_media_gallery_call(last'.node.value)
        /\ ItemsArgument(last'.node.value).t = "List") =>
        /\ Len(components') = Len(components) + 1
        /\ Last(components').type = "media_gallery"
        /\ DOMAIN Last(components').properties = {"items", "item_count"}
        /\ Last(components').properties.items = Literal(ItemsArgument(last'.node.value))
        /\ Last(components').properties.item_count =
               PyInt(Len(ItemsArgument(last'.node.value).elts))]_vars

\* C26: a relationship call tracked in __init__ whose argument is an inline
\* call binds its synthetic key to an item whose component was extracted
\* from that very call.
C26_InlineChildIsItsOwnComponent ==
    [][(/\ VisitsRelationshipCall
        /\ in_init_method
        /\ last'.node.value.args[1].t = "Call") =>
        LET arg == last'.node.value.args[1]
        IN  /\ InlineKey(arg) \in DOMAIN hierarchy_tracking'
            /\ hierarchy_tracking'[InlineKey(arg)].nodeType = "item"
            /\ hierarchy_tracking'[InlineKey(arg)].data.node = id(arg)]_vars

\* C27: the build of a hierarchy never runs into unbounded recursion,
\* whatever edges were recorded.
C27_BuildTerminates == raised # "RecursionError"

RECURSIVE ItemsAreLeaves(_)
\* no item at or below this node has children
ItemsAreLeaves(node) ==
    /\ node.nodeType = "item" => "children" \notin DOMAIN node
    /\ "children" \in DOMAIN node =>
          \A i \in 1..Len(node.children) : ItemsAreLeaves(node.children[i])

\* C28: in a built hierarchy no item node has children.
C28_ItemsAreLeaves ==
    HierarchyBuilt =>
        \A i \in 1..Len(Last(views).children) : ItemsAreLeaves(Last(views).children[i])

RECURSIVE RecordedAfter(_, _)
\* this node and the nodes below it were recorded after the line
RecordedAfter(node, line) ==
    /\ node.line > line
    /\ "children" \in DOMAIN node =>
          \A i \in 1..Len(node.children) : RecordedAfter(node.children[i], line)

\* this step ends the body of a View/Modal/LayoutView class and builds its
\* hierarchy
LeavesDeclaration ==
    /\ last'.node.t = "end"
    /\ last'.node.of.t = "ClassDef"
    /\ Len(stack') < Len(stack)
    /\ Len(views') = Len(views) + 1

\* C29: the hierarchy of a declaration holds only nodes recorded in its own
\* body, after the line of its class statement, and the end of a nested
\* declaration leaves the enclosing declaration the nodes and edges it had
\* recorded before.
C29_TrackingPerDeclaration ==
    [][LeavesDeclaration =>
        /\ \A i \in 1..Len(Last(views').children) :
              RecordedAfter(Last(views').children[i], last'.node.of.lineno)
        /\ current_class' # NoName =>
              /\ \A name \in DOMAIN hierarchy_tracking :
                    (/\ hierarchy_tracking[name].line > current_class_line'.n
                     /\ hierarchy_tracking[name].line < last'.node.of.lineno) =>
                       /\ name \in DOMAIN hierarchy_tracking'
                       /\ hierarchy_tracking'[name] = hierarchy_tracking[name]
              /\ \A i \in 1..Len(hierarchy_relationships) :
                    (/\ hierarchy_relationships[i].line > current_class_line'.n
                     /\ hierarchy_relationships[i].line < last'.node.of.lineno) =>
                       \E j \in 1..Len(hierarchy_relationships') :
                           hierarchy_relationships'[j] = hierarchy_relationships[i]]_vars

\* this step ends the body of a class or function and its handler returns
LeavesDefinition == Len(stack') < Len(stack)

\* the inside-__init__ flag is set only below an __init__ that is below a
\* View/Modal/LayoutView class
FlagInsideInit ==
    in_init_method =>
        \E i, j \in 1..Len(stack) :
            /\ i < j
            /\ stack[i].t = "ClassDef"
            /\ stack[i].class_type # NoName
            /\ stack[j].t = "FunctionDef"
            /\ stack[j].node.name = "__init__"

\* outside every definition there is no current declaration and the flag is
\* not set
NoContextAtTopLevel ==
    Len(stack) = 0 =>
        /\ current_class = NoName
        /\ current_class_type = NoName
        /\ current_class_line = None
        /\ ~in_init_method

\* name, kind, line and flag are those the definition was entered with
RestoresDeclaration ==
    /\ current_class' = Top(entered).name
    /\ current_class_type' = Top(entered).kind
    /\ current_class_line' = Top(entered).line
    /\ in_init_method' = Top(entered).in_init

IsPrefix(s, t) == Len(s) <= Len(t) /\ SubSeq(t, 1, Len(s)) = s

====
